---- MODULE Spec2Model ----
(***************************************************************************)
(* Model of reflectpause_core: the result cache (ToxicityCache), the        *)
(* metrics collector (MetricsCollector) and the accuracy tracker           *)
(* (AccuracyTracker).                                                      *)
(*                                                                         *)
(* Python dicts are modelled as sequences of records in insertion order    *)
(* (a dict iterates in insertion order, an overwrite keeps the position,   *)
(* a delete followed by an insert moves the key to the end).  time.time()  *)
(* is the integer variable now, which only moves forward.  Scores are      *)
(* opaque values that the cache stores and returns unchanged.              *)
(*                                                                         *)
(* datetime.now(timezone.utc) is the same clock read in hours.  Python     *)
(* floats are modelled as exact fractions <<numerator, denominator>> in    *)
(* lowest terms; a division by zero is the value ZeroDivisionError.        *)
(*                                                                         *)
(* The storage file of the tracker is the variable disk: no file, a file   *)
(* that is not a JSON object, or the JSON object that _save_data writes.   *)
(* io lists the attempts to write the file that the last call made.        *)
(*                                                                         *)
(* check of core.py runs on the global cache, the global collector and the *)
(* global engine (engine, None until it is created); config holds the two  *)
(* settings it reads.  The engine is external: what analyze returns, and   *)
(* whether it or the creation of the engine raises, are inputs of a call.  *)
(* Toxicity scores and thresholds are counted in tenths.                   *)
(***************************************************************************)
EXTENDS Integers, Sequences, FiniteSets, TLC

\* ------------------------------------------------------------------ bounds
MaxCalls == 4
MaxTime == 2
MaxConcCalls == 2
MaxTrackerCalls == 3
MaxCoreCalls == 2
MaxAccessorCalls == 3
MaxRecords == 2
MaxFeedback == 4
MaxCount == 2
MaxScored == 2
MaxHistory == 2
MaxAppends == 3
MaxLimit == 3
MaxStored == 2
MaxChecks == 2
MaxCheckTime == 1

\* ------------------------------------------------------------------ inputs
Texts == {"a", "b"}
Engines == {"onnx", "other"}
Scores == {1, 2}
Capacities == {1, 2, 3}
Ttls == {1}
Threads == {1, 2}
NoArg == "<None>"
None == -1
SampleCaps == {1, 2}
CheckScores == {2}
Durations == {0, 8}
Formats == {"dict", "prometheus", "json"}
ConfidenceScores == {0, 19, 20, 39, 40, 59, 60, 79, 80, 100}
PredictionLists ==
    LET Predictions == {<<text, predicted_toxic, "onnx", 90>> :
                            text \in Texts, predicted_toxic \in BOOLEAN}
    IN {<< >>} \cup {<<p>> : p \in Predictions}
               \cup {<<p, q>> : p \in Predictions, q \in Predictions}

VARIABLES max_size, ttl_seconds, cache, access_times, stats, now, calls, ret,
          lock, th, lin,
          collector, m_calls, m_ret,
          tracker, fb_calls, a_ret, storage_file, disk, io,
          engine, config, c_calls, c_ret,
          holder, task, seen, breakdown, globals

cacheVars == <<max_size, ttl_seconds, cache, access_times, stats>>
threadVars == <<lock, th, lin>>
metricsVars == <<collector, m_calls, m_ret>>
accuracyVars == <<tracker, fb_calls, a_ret, storage_file, disk, io>>
coreVars == <<engine, config, c_calls, c_ret>>
procVars == <<holder, task, seen, breakdown, globals>>
vars == <<max_size, ttl_seconds, cache, access_times, stats, now, calls, ret,
          lock, th, lin, collector, m_calls, m_ret, tracker, fb_calls, a_ret,
          storage_file, disk, io, engine, config, c_calls, c_ret,
          holder, task, seen, breakdown, globals>>

\* ------------------------------------------------------------ dict helpers
\* key in d, for a dict d whose records carry their key in field key
HasKey(d, k) == \E i \in DOMAIN d : d[i].key = k

KeyIndex(d, k) == CHOOSE i \in DOMAIN d : d[i].key = k

Lookup(d, k) == d[KeyIndex(d, k)]

\* variant: an existing key keeps its old value (setdefault instead of assignment)
DictSet_KeepExisting(d, k, v) ==
    IF HasKey(d, k) THEN d ELSE Append(d, v)

\* d[k] = v : overwrite in place, or append a new key at the end
DictSet(d, k, v) ==
    IF HasKey(d, k)
    THEN [i \in DOMAIN d |-> IF d[i].key = k THEN v ELSE d[i]]
    ELSE Append(d, v)

\* del d[k]
DictDel(d, k) == SelectSeq(d, LAMBDA r : r.key # k)

Keys(d) == {d[i].key : i \in DOMAIN d}

\* ------------------------------------------------------------ ToxicityCache
\* variant: the engine type is left out of the hashed string
GenerateKey_TextOnly(text, engine_type) == ":" \o text

\* _generate_key: sha256 of "engine:text"; the digest is collision resistant,
\* so the combined string stands for it.
GenerateKey(text, engine_type) == engine_type \o ":" \o text

CacheResult(k, score, t, engine_type) ==
    [key |-> k, toxicity_score |-> score, timestamp |-> t,
     engine_type |-> engine_type, hit_count |-> 0]

\* variant: an entry counts as expired as soon as its age reaches the TTL
IsExpired_Inclusive(result, t) == t - result.timestamp >= ttl_seconds

IsExpired(result, t) == t - result.timestamp > ttl_seconds

\* variant: first-in first-out, the oldest inserted key whatever its access time
LruKey_Fifo(at) == at[1].key

\* min(self._access_times, key=self._access_times.get): the first key, in
\* iteration order, among those with the smallest access time.
LruKey(at) ==
    LET i == CHOOSE i \in DOMAIN at :
                 \A j \in DOMAIN at :
                     at[i].time < at[j].time \/ (at[i].time = at[j].time /\ i <= j)
    IN at[i].key

\* A cache state is a record [cache, access_times, stats].
EvictLru(s) ==
    IF s.access_times = << >>
    THEN s
    ELSE LET lru == LruKey(s.access_times)
         IN [cache |-> DictDel(s.cache, lru),
             access_times |-> DictDel(s.access_times, lru),
             stats |-> [s.stats EXCEPT !.evictions = @ + 1]]

\* variant: the hit is not counted on the entry
TouchResult_Skip(result) == result

\* result.hit_count += 1
TouchResult(result) == [result EXCEPT !.hit_count = @ + 1]

\* variant: off by one, eviction starts only above capacity
NeedsEviction_OffByOne(s, k) == Len(s.cache) > max_size /\ ~HasKey(s.cache, k)

\* len(self._cache) >= self.max_size and cache_key not in self._cache
NeedsEviction(s, k) == Len(s.cache) >= max_size /\ ~HasKey(s.cache, k)

\* variant: the engine filter is dropped
KeysOfEngine_All(s, engine_type) == Keys(s.cache)

\* [key for key, result in self._cache.items() if result.engine_type == engine_type]
KeysOfEngine(s, engine_type) ==
    {s.cache[i].key : i \in {j \in DOMAIN s.cache :
                                s.cache[j].engine_type = engine_type}}

\* The clock readings of a call that reads time.time() n times and reads
\* first at the first reading: the clock can move on between two readings
\* and never goes back.
RECURSIVE Readings(_, _)
Readings(n, first) ==
    IF n = 0 THEN {<< >>}
    ELSE {<<first>> \o rest : rest \in UNION {Readings(n - 1, t) : t \in first..MaxTime}}

\* [key for key, result in self._cache.items() if self._is_expired(result)]
\* _is_expired reads the clock at each call: ts[j] is the reading for the
\* j-th entry in iteration order
ExpiredKeys(s, ts) ==
    {s.cache[i].key : i \in {j \in DOMAIN s.cache \cap DOMAIN ts :
                                IsExpired(s.cache[j], ts[j])}}

\* get: t1 is the clock read by _is_expired, t2 the clock read for the access time
GetOp(s, text, engine_type, t1, t2) ==
    LET k == GenerateKey(text, engine_type) IN
    IF ~HasKey(s.cache, k)
    THEN [state |-> [s EXCEPT !.stats.misses = @ + 1], ret |-> None]
    ELSE LET result == Lookup(s.cache, k) IN
         IF IsExpired(result, t1)
         THEN [state |-> [cache |-> DictDel(s.cache, k),
                          access_times |-> DictDel(s.access_times, k),
                          stats |-> [s.stats EXCEPT !.expired = @ + 1,
                                                    !.misses = @ + 1]],
               ret |-> None]
         ELSE [state |-> [cache |-> DictSet(s.cache, k,
                                       TouchResult(result)),
                          access_times |-> DictSet(s.access_times, k,
                                              [key |-> k, time |-> t2]),
                          stats |-> [s.stats EXCEPT !.hits = @ + 1]],
               ret |-> result.toxicity_score]

\* put: current_time is the clock read on entry
PutOp(s, text, engine_type, toxicity_score, current_time) ==
    LET k == GenerateKey(text, engine_type)
        e == IF NeedsEviction(s, k) THEN EvictLru(s) ELSE s
    IN [state |-> [cache |-> DictSet(e.cache, k,
                                CacheResult(k, toxicity_score, current_time, engine_type)),
                   access_times |-> DictSet(e.access_times, k,
                                       [key |-> k, time |-> current_time]),
                   stats |-> e.stats],
        ret |-> None]

\* invalidate: text and engine_type are NoArg when the argument is left out
InvalidateOp(s, text, engine_type) ==
    IF text # NoArg
    THEN LET k == GenerateKey(text, IF engine_type = NoArg THEN "" ELSE engine_type) IN
         IF HasKey(s.cache, k)
         THEN [state |-> [s EXCEPT !.cache = DictDel(s.cache, k),
                                   !.access_times = DictDel(s.access_times, k)],
               ret |-> 1]
         ELSE [state |-> s, ret |-> 0]
    ELSE IF engine_type # NoArg
    THEN LET keys_to_remove == KeysOfEngine(s, engine_type)
         IN [state |-> [s EXCEPT
                 !.cache = SelectSeq(s.cache, LAMBDA r : r.key \notin keys_to_remove),
                 !.access_times = SelectSeq(s.access_times,
                                            LAMBDA r : r.key \notin keys_to_remove)],
             ret |-> Cardinality(keys_to_remove)]
    ELSE [state |-> [s EXCEPT !.cache = << >>, !.access_times = << >>],
          ret |-> Len(s.cache)]

\* cleanup_expired; ts are the clock readings of its expiry tests, one for
\* each entry
CleanupExpiredOp(s, ts) ==
    LET expired_keys == ExpiredKeys(s, ts)
        n == Cardinality(expired_keys)
    IN [state |-> [cache |-> SelectSeq(s.cache, LAMBDA r : r.key \notin expired_keys),
                   access_times |-> SelectSeq(s.access_times,
                                              LAMBDA r : r.key \notin expired_keys),
                   stats |-> IF n > 0 THEN [s.stats EXCEPT !.expired = @ + n]
                             ELSE s.stats],
        ret |-> n]

\* get_stats: hit_rate is hits / total_requests, kept as the pair it is computed from
GetStatsOp(s) ==
    LET total_requests == s.stats.hits + s.stats.misses IN
    [state |-> s,
     ret |-> [hits |-> s.stats.hits, misses |-> s.stats.misses,
              evictions |-> s.stats.evictions, expired |-> s.stats.expired,
              size |-> Len(s.cache),
              hit_rate |-> IF total_requests > 0
                           THEN <<s.stats.hits, total_requests>> ELSE <<0, 1>>,
              total_requests |-> total_requests]]

\* reset_stats: the four counters start again at 0
ResetStatsOp(s) ==
    [state |-> [s EXCEPT !.stats = [hits |-> 0, misses |-> 0, evictions |-> 0,
                                    expired |-> 0]],
     ret |-> None]

\* ------------------------------------------------------------------ floats
\* A float is the exact fraction <<n, d>> in lowest terms, d > 0; the pair with
\* d = 0 is the ZeroDivisionError that a division by 0 raises, and it
\* propagates through every later operation of the expression.
RECURSIVE GCD(_, _)
GCD(a, b) == IF b = 0 THEN a ELSE GCD(b, a % b)

ZeroDivisionError == <<0, 0>>

Raised(x) == x[2] = 0

\* n / d on two non-negative integers
Frac(n, d) ==
    IF d = 0 THEN ZeroDivisionError
    ELSE LET g == GCD(n, d) IN <<n \div g, d \div g>>

Float(n) == <<n, 1>>

Mul(a, b) ==
    IF Raised(a) \/ Raised(b) THEN ZeroDivisionError
    ELSE Frac(a[1] * b[1], a[2] * b[2])

Div(a, b) ==
    IF Raised(a) \/ Raised(b) THEN ZeroDivisionError
    ELSE Frac(a[1] * b[2], a[2] * b[1])

Add(a, b) ==
    IF Raised(a) \/ Raised(b) THEN ZeroDivisionError
    ELSE Frac(a[1] * b[2] + b[1] * a[2], a[2] * b[2])

RECURSIVE SumSeq(_)
SumSeq(xs) == IF xs = << >> THEN 0 ELSE Head(xs) + SumSeq(Tail(xs))

\* statistics.mean
Mean(xs) == Frac(SumSeq(xs), Len(xs))

\* str() and isoformat(): the value as text
Str(x) == ToString(x)

\* what a call hands back: a value, or the exception it raises
Ok(v) == [raised |-> "", value |-> v]

Err(e) == [raised |-> e, value |-> None]

\* --------------------------------------------------------- MetricsCollector
ToxicityMetrics ==
    [total_checks |-> 0, toxic_detected |-> 0, non_toxic_detected |-> 0,
     cache_hits |-> 0, cache_misses |-> 0, engine_errors |-> 0]

\* variant: the division is made without looking at the denominator
ToxicityRate_Unguarded(m) ==
    Mul(Frac(m.toxic_detected, m.total_checks), Float(100))

ToxicityRate(m) ==
    IF m.total_checks = 0 THEN Float(0)
    ELSE Mul(Frac(m.toxic_detected, m.total_checks), Float(100))

CacheHitRate(m) ==
    LET total_cache_attempts == m.cache_hits + m.cache_misses IN
    IF total_cache_attempts = 0 THEN Float(0)
    ELSE Mul(Frac(m.cache_hits, total_cache_attempts), Float(100))

ErrorRate(m) ==
    IF m.total_checks = 0 THEN Float(0)
    ELSE Mul(Frac(m.engine_errors, m.total_checks), Float(100))

PerformanceMetrics ==
    [response_times |-> << >>, cached_response_times |-> << >>,
     analyzed_response_times |-> << >>]

AvgResponseTime(p) ==
    IF p.response_times = << >> THEN Float(0) ELSE Mean(p.response_times)

\* sorted(xs)[idx], idx counted from 0
SortedAt(xs, idx) ==
    CHOOSE x \in {xs[i] : i \in DOMAIN xs} :
        /\ Cardinality({i \in DOMAIN xs : xs[i] < x}) <= idx
        /\ idx < Cardinality({i \in DOMAIN xs : xs[i] <= x})

P95ResponseTime(p) ==
    LET n == Len(p.response_times) IN
    IF n = 0 THEN Float(0)
    ELSE IF n = 1 THEN Float(p.response_times[1])
    ELSE LET index == (95 * n) \div 100 IN
         Float(SortedAt(p.response_times, IF index < n - 1 THEN index ELSE n - 1))

AvgCachedTime(p) ==
    IF p.cached_response_times = << >> THEN Float(0) ELSE Mean(p.cached_response_times)

AvgAnalyzedTime(p) ==
    IF p.analyzed_response_times = << >> THEN Float(0)
    ELSE Mean(p.analyzed_response_times)

CacheSpeedup(p) ==
    IF p.cached_response_times = << >> \/ p.analyzed_response_times = << >>
    THEN Float(1)
    ELSE Div(AvgAnalyzedTime(p), AvgCachedTime(p))

\* A collector is a record of the fields of MetricsCollector; _engine_stats and
\* _hourly_stats are dicts.
NewCollector(cap, t0, t1) ==
    [max_samples |-> cap,
     toxicity_metrics |-> ToxicityMetrics,
     performance_metrics |-> PerformanceMetrics,
     hourly_stats |-> << >>,
     engine_stats |-> << >>,
     session_start |-> t0,
     last_reset |-> t1]

\* the part of a sub-series that _trim_samples keeps: its last max_samples // 2
HalfTail(xs, cap) ==
    IF xs = << >> THEN xs
    ELSE LET k == Len(xs) - cap \div 2
         IN SubSeq(xs, (IF k > 0 THEN k ELSE 0) + 1, Len(xs))

\* _trim_samples
TrimSamples(p, cap) ==
    IF Len(p.response_times) > cap
    THEN [response_times |->
              SubSeq(p.response_times, Len(p.response_times) - cap + 1,
                     Len(p.response_times)),
          cached_response_times |-> HalfTail(p.cached_response_times, cap),
          analyzed_response_times |-> HalfTail(p.analyzed_response_times, cap)]
    ELSE p

\* strftime('%Y-%m-%d-%H') of hour t of the modelled month: the two digits of
\* the day, a dash, the two digits of the hour (year and month are the same
\* for every key and are left out).  The dash is -1: it sorts before the
\* digits.
HourKey(t) ==
    LET day == 1 + t \div 24
        hour == t % 24
    IN <<day \div 10, day % 10, -1, hour \div 10, hour % 10>>

\* a < b on strings
LexLess(a, b) ==
    \/ \E i \in 1..Len(a) :
          /\ i <= Len(b)
          /\ a[i] < b[i]
          /\ \A j \in 1..(i - 1) : a[j] = b[j]
    \/ /\ Len(a) < Len(b)
       /\ \A j \in 1..Len(a) : a[j] = b[j]

\* variant: the newest hour is taken instead of the oldest
OldestHour_Newest(h) ==
    CHOOSE k \in Keys(h) : \A o \in Keys(h) \ {k} : LexLess(o, k)

\* min(self._hourly_stats.keys())
OldestHour(h) ==
    CHOOSE k \in Keys(h) : \A o \in Keys(h) \ {k} : LexLess(k, o)

HourlyLimit == 24

\* (avg * total + x) / (total + 1)
RunningAverage(avg, total, x) ==
    Div(Add(Mul(avg, Float(total)), Float(x)), Float(total + 1))

\* _update_hourly_stats at clock t
UpdateHourlyStats(h, result, score, engine_type, duration_ms, t) ==
    LET hour_key == HourKey(t)
        h1 == IF HasKey(h, hour_key) THEN h
              ELSE Append(h, [key |-> hour_key, total_checks |-> 0,
                              toxic_detected |-> 0, avg_score |-> Float(0),
                              avg_duration |-> Float(0),
                              engine_breakdown |-> << >>])
        bucket == Lookup(h1, hour_key)
        total == bucket.total_checks
        eb == IF HasKey(bucket.engine_breakdown, engine_type)
              THEN bucket.engine_breakdown
              ELSE Append(bucket.engine_breakdown,
                          [key |-> engine_type, count |-> 0])
        updated ==
            [key |-> hour_key,
             total_checks |-> total + 1,
             toxic_detected |-> bucket.toxic_detected + (IF result THEN 1 ELSE 0),
             avg_score |-> RunningAverage(bucket.avg_score, total, score),
             avg_duration |-> RunningAverage(bucket.avg_duration, total, duration_ms),
             engine_breakdown |->
                 [i \in DOMAIN eb |-> IF eb[i].key = engine_type
                                      THEN [eb[i] EXCEPT !.count = @ + 1]
                                      ELSE eb[i]]]
        h2 == DictSet(h1, hour_key, updated)
    IN IF Len(h2) > HourlyLimit THEN DictDel(h2, OldestHour(h2)) ELSE h2

\* variant: every successful check is counted as a cache hit
CountCheck_HitAlways(m, result, was_cached) ==
    [m EXCEPT !.toxic_detected = IF result THEN @ + 1 ELSE @,
              !.non_toxic_detected = IF result THEN @ ELSE @ + 1,
              !.cache_hits = @ + 1]

\* the result and cache counters of a successful check
CountCheck(m, result, was_cached) ==
    [m EXCEPT !.toxic_detected = IF result THEN @ + 1 ELSE @,
              !.non_toxic_detected = IF result THEN @ ELSE @ + 1,
              !.cache_hits = IF was_cached THEN @ + 1 ELSE @,
              !.cache_misses = IF was_cached THEN @ ELSE @ + 1]

\* variant: a failed check is also counted by result and cache outcome
Counted_ErrorBreakdown(m, result, was_cached, error) ==
    LET counted == [m EXCEPT !.total_checks = @ + 1] IN
    IF error THEN CountCheck([counted EXCEPT !.engine_errors = @ + 1], result, was_cached)
    ELSE CountCheck(counted, result, was_cached)

\* the global counters after a check: total_checks, then engine_errors for a
\* failed check and the result and cache counters for a successful one
Counted(m, result, was_cached, error) ==
    LET counted == [m EXCEPT !.total_checks = @ + 1] IN
    IF error THEN [counted EXCEPT !.engine_errors = @ + 1]
    ELSE CountCheck(counted, result, was_cached)

\* variant: an engine counts the results that are toxic, and no others
CountEngine_ToxicOnly(engine_metrics, result) ==
    [engine_metrics EXCEPT !.total_checks = @ + 1,
                           !.toxic_detected = IF result THEN @ + 1 ELSE @]

\* the counters of the engine after a successful check
CountEngine(engine_metrics, result) ==
    [engine_metrics EXCEPT !.total_checks = @ + 1,
                           !.toxic_detected = IF result THEN @ + 1 ELSE @,
                           !.non_toxic_detected = IF result THEN @ ELSE @ + 1]

\* record_toxicity_check at clock t; error says whether the error argument is
\* set.  text and threshold are not read by the body.
RecordToxicityCheckOp(c, result, score, engine_type, duration_ms, was_cached, error, t) ==
    LET tm == Counted(c.toxicity_metrics, result, was_cached, error) IN
    IF error
    THEN [c EXCEPT !.toxicity_metrics = tm]
    ELSE
    LET p == c.performance_metrics
        appended ==
            [response_times |-> Append(p.response_times, duration_ms),
             cached_response_times |->
                 IF was_cached THEN Append(p.cached_response_times, duration_ms)
                 ELSE p.cached_response_times,
             analyzed_response_times |->
                 IF was_cached THEN p.analyzed_response_times
                 ELSE Append(p.analyzed_response_times, duration_ms)]
        es == IF HasKey(c.engine_stats, engine_type) THEN c.engine_stats
              ELSE Append(c.engine_stats,
                          [key |-> engine_type, metrics |-> ToxicityMetrics])
        engine_metrics == Lookup(es, engine_type).metrics
    IN [c EXCEPT
          !.toxicity_metrics = tm,
          !.performance_metrics = TrimSamples(appended, c.max_samples),
          !.engine_stats =
              DictSet(es, engine_type,
                  [key |-> engine_type,
                   metrics |-> CountEngine(engine_metrics, result)]),
          !.hourly_stats =
              UpdateHourlyStats(c.hourly_stats, result, score, engine_type,
                                duration_ms, t)]

\* get_hourly_breakdown: dict.copy() makes a new dict with the same keys
\* whose values are the bucket objects the collector holds; shared says that
\* the collector still holds the object, stats is what the object shows
GetHourlyBreakdownOp(c) ==
    [i \in DOMAIN c.hourly_stats |->
        [key |-> c.hourly_stats[i].key, stats |-> c.hourly_stats[i], shared |-> TRUE]]

\* the value returned earlier, once the collector has become c2 and has let
\* go of the buckets of dropped: an object the collector still holds shows
\* what the collector holds, an object it let go of keeps what it showed
Aliased(returned, c2, dropped) ==
    [i \in DOMAIN returned |->
        IF ~returned[i].shared THEN returned[i]
        ELSE IF returned[i].key \in dropped \/ ~HasKey(c2.hourly_stats, returned[i].key)
        THEN [returned[i] EXCEPT !.shared = FALSE]
        ELSE [returned[i] EXCEPT !.stats = Lookup(c2.hourly_stats, returned[i].key)]]

\* get_summary at clock t; the division in cache_speedup is the one
\* expression of the snapshot that can raise
GetSummaryOp(c, t) ==
    LET m == c.toxicity_metrics
        p == c.performance_metrics
    IN IF Raised(CacheSpeedup(p))
       THEN Err("ZeroDivisionError")
       ELSE Ok([session |->
                    [uptime_seconds |-> t - c.session_start,
                     start_time |-> Str(c.session_start),
                     last_reset |-> Str(c.last_reset)],
                toxicity |->
                    [total_checks |-> m.total_checks,
                     toxic_detected |-> m.toxic_detected,
                     non_toxic_detected |-> m.non_toxic_detected,
                     toxicity_rate |-> ToxicityRate(m),
                     cache_hits |-> m.cache_hits,
                     cache_misses |-> m.cache_misses,
                     cache_hit_rate |-> CacheHitRate(m),
                     engine_errors |-> m.engine_errors,
                     error_rate |-> ErrorRate(m)],
                performance |->
                    [avg_response_time_ms |-> AvgResponseTime(p),
                     p95_response_time_ms |-> P95ResponseTime(p),
                     avg_cached_time_ms |-> AvgCachedTime(p),
                     avg_analyzed_time_ms |-> AvgAnalyzedTime(p),
                     cache_speedup_factor |-> CacheSpeedup(p),
                     total_samples |-> Len(p.response_times)],
                engines |->
                    [i \in DOMAIN c.engine_stats |->
                        LET em == c.engine_stats[i].metrics IN
                        [key |-> c.engine_stats[i].key,
                         total_checks |-> em.total_checks,
                         toxic_detected |-> em.toxic_detected,
                         toxicity_rate |-> ToxicityRate(em),
                         error_rate |-> ErrorRate(em)]]])

\* _to_prometheus_format
ToPrometheusFormat(c) ==
    LET m == c.toxicity_metrics
        p == c.performance_metrics
    IN IF Raised(CacheSpeedup(p))
       THEN Err("ZeroDivisionError")
       ELSE Ok([reflectpause_toxicity_checks_total |-> Str(m.total_checks),
                reflectpause_toxic_detected_total |-> Str(m.toxic_detected),
                reflectpause_toxicity_rate |-> Str(Div(ToxicityRate(m), Float(100))),
                reflectpause_cache_hits_total |-> Str(m.cache_hits),
                reflectpause_cache_hit_rate |-> Str(Div(CacheHitRate(m), Float(100))),
                reflectpause_engine_errors_total |-> Str(m.engine_errors),
                reflectpause_response_time_avg_ms |-> Str(AvgResponseTime(p)),
                reflectpause_response_time_p95_ms |-> Str(P95ResponseTime(p)),
                reflectpause_cache_speedup_factor |-> Str(CacheSpeedup(p))])

\* variant: an unknown format falls back to the structured snapshot
ExportMetricsOp_Lenient(c, format, t) ==
    IF format = "prometheus" THEN ToPrometheusFormat(c) ELSE GetSummaryOp(c, t)

\* export_metrics at clock t
ExportMetricsOp(c, format, t) ==
    IF format = "dict" THEN GetSummaryOp(c, t)
    ELSE IF format = "prometheus" THEN ToPrometheusFormat(c)
    ELSE Err("ValueError")

\* variant: the hourly buckets survive the reset
ResetMetricsOp_KeepHourly(c, t) ==
    [c EXCEPT !.toxicity_metrics = ToxicityMetrics,
              !.performance_metrics = PerformanceMetrics,
              !.engine_stats = << >>,
              !.last_reset = t]

\* reset_metrics at clock t
ResetMetricsOp(c, t) ==
    [c EXCEPT !.toxicity_metrics = ToxicityMetrics,
              !.performance_metrics = PerformanceMetrics,
              !.hourly_stats = << >>,
              !.engine_stats = << >>,
              !.last_reset = t]

\* ---------------------------------------------------------- AccuracyTracker
AccuracyMetrics ==
    [true_positives |-> 0, true_negatives |-> 0,
     false_positives |-> 0, false_negatives |-> 0]

TotalPredictions(m) ==
    m.true_positives + m.true_negatives + m.false_positives + m.false_negatives

Accuracy(m) ==
    IF TotalPredictions(m) = 0 THEN Float(0)
    ELSE Mul(Frac(m.true_positives + m.true_negatives, TotalPredictions(m)),
             Float(100))

\* variant: the recall formula, false negatives in the denominator
Precision_AsRecall(m) ==
    LET total_actual_positives == m.true_positives + m.false_negatives IN
    IF total_actual_positives = 0 THEN Float(0)
    ELSE Mul(Frac(m.true_positives, total_actual_positives), Float(100))

Precision(m) ==
    LET total_positive_predictions == m.true_positives + m.false_positives IN
    IF total_positive_predictions = 0 THEN Float(0)
    ELSE Mul(Frac(m.true_positives, total_positive_predictions), Float(100))

Recall(m) ==
    LET total_actual_positives == m.true_positives + m.false_negatives IN
    IF total_actual_positives = 0 THEN Float(0)
    ELSE Mul(Frac(m.true_positives, total_actual_positives), Float(100))

F1Score(m) ==
    IF Precision(m) = Float(0) /\ Recall(m) = Float(0) THEN Float(0)
    ELSE Div(Mul(Float(2), Mul(Precision(m), Recall(m))),
             Add(Precision(m), Recall(m)))

FalsePositiveRate(m) ==
    LET total_actual_negatives == m.true_negatives + m.false_positives IN
    IF total_actual_negatives = 0 THEN Float(0)
    ELSE Mul(Frac(m.false_positives, total_actual_negatives), Float(100))

\* A tracker is a record of the fields of AccuracyTracker; _engine_metrics,
\* _ground_truth and _confidence_buckets are dicts, _feedback_history a list.
NewTracker ==
    [engine_metrics |-> << >>, feedback_history |-> << >>,
     ground_truth |-> << >>, confidence_buckets |-> << >>]

\* _hash_text: sha256 of the text; the digest is collision resistant, so the
\* marked text stands for it.
HashText(text) == "sha256:" \o text

\* variant: the type is taken from the prediction alone
FeedbackType_PredictionOnly(predicted_toxic, actual_toxic) ==
    IF predicted_toxic THEN "correct_positive" ELSE "correct_negative"

\* the feedback type of a prediction and its ground truth
FeedbackType(predicted_toxic, actual_toxic) ==
    IF predicted_toxic /\ actual_toxic THEN "correct_positive"
    ELSE IF ~predicted_toxic /\ ~actual_toxic THEN "correct_negative"
    ELSE IF predicted_toxic /\ ~actual_toxic THEN "false_positive"
    ELSE "false_negative"

\* variant: the two kinds of wrong prediction are exchanged
CountFeedback_Swapped(m, feedback_type) ==
    CASE feedback_type = "correct_positive" -> [m EXCEPT !.true_positives = @ + 1]
      [] feedback_type = "correct_negative" -> [m EXCEPT !.true_negatives = @ + 1]
      [] feedback_type = "false_positive" -> [m EXCEPT !.false_negatives = @ + 1]
      [] feedback_type = "false_negative" -> [m EXCEPT !.false_positives = @ + 1]

\* the counter of the engine that a feedback type raises
CountFeedback(m, feedback_type) ==
    CASE feedback_type = "correct_positive" -> [m EXCEPT !.true_positives = @ + 1]
      [] feedback_type = "correct_negative" -> [m EXCEPT !.true_negatives = @ + 1]
      [] feedback_type = "false_positive" -> [m EXCEPT !.false_positives = @ + 1]
      [] feedback_type = "false_negative" -> [m EXCEPT !.false_negatives = @ + 1]

\* variant: the upper bound of a range belongs to the range
GetConfidenceBucket_UpperInclusive(score) ==
    IF score <= 20 THEN "0.0-0.2"
    ELSE IF score <= 40 THEN "0.2-0.4"
    ELSE IF score <= 60 THEN "0.4-0.6"
    ELSE IF score <= 80 THEN "0.6-0.8"
    ELSE "0.8-1.0"

\* _get_confidence_bucket; a confidence score is counted in hundredths, so
\* 0.2 is 20 and 1.0 is 100
GetConfidenceBucket(score) ==
    IF score < 20 THEN "0.0-0.2"
    ELSE IF score < 40 THEN "0.2-0.4"
    ELSE IF score < 60 THEN "0.4-0.6"
    ELSE IF score < 80 THEN "0.6-0.8"
    ELSE "0.8-1.0"

\* record_feedback at clock t; confidence_score is None when it is left out.
\* No storage file is configured, so _save_data returns at once.
RecordFeedbackOp(tr, text, predicted_toxic, actual_toxic, engine_type, confidence_score, t) ==
    LET feedback_type == FeedbackType(predicted_toxic, actual_toxic)
        em == IF HasKey(tr.engine_metrics, engine_type) THEN tr.engine_metrics
              ELSE Append(tr.engine_metrics,
                          [key |-> engine_type, metrics |-> AccuracyMetrics])
        metrics == Lookup(em, engine_type).metrics
        feedback_record ==
            [timestamp |-> Str(t),
             text_hash |-> HashText(text),
             predicted_toxic |-> predicted_toxic,
             actual_toxic |-> actual_toxic,
             engine_type |-> engine_type,
             feedback_type |-> feedback_type,
             confidence_score |-> confidence_score]
        bucket == GetConfidenceBucket(confidence_score)
        cb == IF HasKey(tr.confidence_buckets, bucket) THEN tr.confidence_buckets
              ELSE Append(tr.confidence_buckets, [key |-> bucket, entries |-> << >>])
    IN [engine_metrics |->
            DictSet(em, engine_type,
                    [key |-> engine_type,
                     metrics |-> CountFeedback(metrics, feedback_type)]),
        feedback_history |-> Append(tr.feedback_history, feedback_record),
        ground_truth |->
            DictSet(tr.ground_truth, HashText(text),
                    [key |-> HashText(text), is_toxic |-> actual_toxic]),
        confidence_buckets |->
            IF confidence_score # None
            THEN DictSet(cb, bucket,
                         [key |-> bucket,
                          entries |-> Append(Lookup(cb, bucket).entries,
                                             <<confidence_score, actual_toxic>>)])
            ELSE tr.confidence_buckets]

\* the figures get_accuracy_metrics reports for one engine
EngineReport(m) ==
    [total_predictions |-> TotalPredictions(m),
     accuracy |-> Accuracy(m),
     precision |-> Precision(m),
     recall |-> Recall(m),
     f1_score |-> F1Score(m),
     false_positive_rate |-> FalsePositiveRate(m)]

\* get_accuracy_metrics; engine_type is NoArg when it is left out, and the
\* test 'if engine_type:' takes the empty string as it takes None
GetAccuracyMetricsOp(tr, engine_type) ==
    IF engine_type \notin {NoArg, ""}
    THEN IF ~HasKey(tr.engine_metrics, engine_type)
         THEN Ok([error |-> "No data for engine: " \o engine_type])
         ELSE LET m == Lookup(tr.engine_metrics, engine_type).metrics IN
              Ok([engine_type |-> engine_type, confusion_matrix |-> m]
                 @@ EngineReport(m))
    ELSE Ok([i \in DOMAIN tr.engine_metrics |->
                [key |-> tr.engine_metrics[i].key]
                @@ EngineReport(tr.engine_metrics[i].metrics)])

\* get_feedback_summary: xs[i:] of Python, i counted from the end when it is
\* negative
TailFrom(xs, i) ==
    LET n == Len(xs)
        start == IF i < 0 THEN (IF n + i < 0 THEN 0 ELSE n + i)
                 ELSE (IF i > n THEN n ELSE i)
    IN SubSeq(xs, start + 1, n)

GetFeedbackSummaryOp(tr, limit) ==
    IF tr.feedback_history # << >> THEN TailFrom(tr.feedback_history, 0 - limit)
    ELSE << >>

\* text_hash[:8] of the digest of a text
HashPrefix(text) == "sha256[:8]:" \o text

\* variant: only a prediction of toxic can be correct
IsCorrect_WhenToxic(predicted_toxic, actual_toxic) == predicted_toxic /\ actual_toxic

\* is_correct of validate_predictions
IsCorrect(predicted_toxic, actual_toxic) == predicted_toxic = actual_toxic

\* validate_predictions; a prediction is (text, predicted_toxic, engine_type,
\* confidence)
ValidatePredictionsOp(tr, predictions) ==
    LET known(p) == HasKey(tr.ground_truth, HashText(p[1]))
        scored == SelectSeq(predictions, known)
        details ==
            [i \in DOMAIN scored |->
                LET actual_toxic == Lookup(tr.ground_truth, HashText(scored[i][1])).is_toxic
                IN [text_hash |-> HashPrefix(scored[i][1]) \o "...",
                    predicted |-> scored[i][2],
                    actual |-> actual_toxic,
                    correct |-> IsCorrect(scored[i][2], actual_toxic),
                    engine |-> scored[i][3],
                    confidence |-> scored[i][4]]]
        total_validated == Len(details)
        matched_ground_truth == Cardinality({i \in DOMAIN details : details[i].correct})
    IN [total_validated |-> total_validated,
        matched_ground_truth |-> matched_ground_truth,
        accuracy |-> IF total_validated > 0
                     THEN Mul(Frac(matched_ground_truth, total_validated), Float(100))
                     ELSE Float(0),
        details |-> details]

\* variant: an imported label replaces the stored one
ImportGroundTruthOp_Overwrite(tr, ground_truth) ==
    LET RECURSIVE Fold(_, _, _)
        Fold(gt, imported, i) ==
            IF i > Len(ground_truth) THEN [ground_truth |-> gt, imported |-> imported]
            ELSE Fold(DictSet(gt, ground_truth[i].key, ground_truth[i]),
                      imported + 1, i + 1)
        r == Fold(tr.ground_truth, 0, 1)
    IN [tracker |-> [tr EXCEPT !.ground_truth = r.ground_truth],
        imported |-> r.imported]

\* import_ground_truth, before its _save_data: the tracker and the count
ImportGroundTruthOp(tr, ground_truth) ==
    LET RECURSIVE Fold(_, _, _)
        Fold(gt, imported, i) ==
            IF i > Len(ground_truth) THEN [ground_truth |-> gt, imported |-> imported]
            ELSE IF ~HasKey(gt, ground_truth[i].key)
            THEN Fold(Append(gt, ground_truth[i]), imported + 1, i + 1)
            ELSE Fold(gt, imported, i + 1)
        r == Fold(tr.ground_truth, 0, 1)
    IN [tracker |-> [tr EXCEPT !.ground_truth = r.ground_truth],
        imported |-> r.imported]

\* variant: a scoped reset drops the records and keeps the engine's counters
ResetAccuracyDataOp_KeepMetrics(tr, engine_type) ==
    IF engine_type \notin {NoArg, ""}
    THEN LET other(record) == record.engine_type # engine_type IN
         [tr EXCEPT !.feedback_history = SelectSeq(@, other)]
    ELSE NewTracker

\* variant: a scoped reset keeps the feedback records
ResetAccuracyDataOp_KeepHistory(tr, engine_type) ==
    IF engine_type \notin {NoArg, ""}
    THEN [tr EXCEPT !.engine_metrics = DictDel(@, engine_type)]
    ELSE NewTracker

\* reset_accuracy_data, before its _save_data; an engine_type that is None or
\* empty resets everything
ResetAccuracyDataOp(tr, engine_type) ==
    IF engine_type \notin {NoArg, ""}
    THEN LET other(record) == record.engine_type # engine_type IN
         [tr EXCEPT !.engine_metrics =
                        IF HasKey(@, engine_type) THEN DictDel(@, engine_type) ELSE @,
                    !.feedback_history = SelectSeq(@, other)]
    ELSE NewTracker

\* The storage file: absent, not a JSON object, or a JSON object.
NoFile == [kind |-> "missing"]

\* a JSON value that is not an object, where _load_data expects one
NotAnObject == [json |-> "number"]

NotJson == [kind |-> "malformed"]

\* the JSON object that _save_data builds
Snapshot(tr) ==
    [kind |-> "json",
     engine_metrics |->
         [i \in DOMAIN tr.engine_metrics |->
             [key |-> tr.engine_metrics[i].key,
              data |-> tr.engine_metrics[i].metrics]],
     feedback_history |-> tr.feedback_history,
     ground_truth |-> tr.ground_truth,
     confidence_buckets |-> tr.confidence_buckets]

\* variant: nothing is ever written
SaveData_Never(tr, file, d, fault) == d

\* _save_data: the file afterwards.  fault "ok": the snapshot is written;
\* "open": the file cannot be opened and stays as it was; "write": the file
\* was opened (and so emptied) and the write stopped part-way.
SaveData(tr, file, d, fault) ==
    IF file = NoArg THEN d
    ELSE CASE fault = "ok" -> Snapshot(tr)
           [] fault = "open" -> d
           [] fault = "write" -> NotJson

\* the entries of 'engine_metrics' that the loop of _load_data stores before
\* it meets one that is not an object
RECURSIVE LoadedMetrics(_)
LoadedMetrics(entries) ==
    IF entries = << >> THEN << >>
    ELSE IF Head(entries).data = NotAnObject THEN << >>
    ELSE <<[key |-> Head(entries).key, metrics |-> Head(entries).data]>>
         \o LoadedMetrics(Tail(entries))

\* _load_data into a new tracker; the three other tables are assigned only
\* when the loop over 'engine_metrics' has ended without an exception
LoadData(file, d) ==
    IF file = NoArg \/ d.kind # "json" THEN NewTracker
    ELSE LET em == LoadedMetrics(d.engine_metrics) IN
         IF Len(em) < Len(d.engine_metrics)
         THEN [NewTracker EXCEPT !.engine_metrics = em]
         ELSE [engine_metrics |-> em,
               feedback_history |-> d.feedback_history,
               ground_truth |-> d.ground_truth,
               confidence_buckets |-> d.confidence_buckets]

\* ------------------------------------------------------------ Python values
\* A value of a setting: its type, and its number (a bool as 0 or 1, an int
\* as it is, a float in tenths) or its text.
Py(type, num, text) == [type |-> type, num |-> num, text |-> text]

PyBool(b) == Py("bool", IF b THEN 1 ELSE 0, "")

PyInt(n) == Py("int", n, "")

PyFloat(tenths) == Py("float", tenths, "")

PyStr(text) == Py("str", 0, text)

PyNone == Py("NoneType", 0, "")

\* what stands for the value of a call that raised
Raising(exception) == Py(exception, 0, "")

Raises(value) == value.type \in {"ValueError", "TypeError"}

\* bool(value), the truth value of an 'if' or an 'and'
Truthy(value) ==
    CASE value.type \in {"bool", "int", "float"} -> value.num # 0
      [] value.type = "str" -> value.text # ""
      [] OTHER -> FALSE

\* the number in tenths, for the comparisons of check
Tenths(value) == IF value.type = "float" THEN value.num ELSE value.num * 10

\* a comparison of the value with a float raises TypeError
Incomparable(value) == value.type \notin {"bool", "int", "float"}

\* isinstance(value, type): a bool is an int
IsInstance(value, type) ==
    value.type = type \/ (type = "int" /\ value.type = "bool")

\* the numbers that the texts of the model can denote
Literals == (0 - 100)..100

\* repr of a float of the model, given in tenths: 3 is '0.3', 10 is '1.0',
\* -37 is '-3.7'
Repr(tenths) ==
    LET size == IF tenths < 0 THEN 0 - tenths ELSE tenths IN
    (IF tenths < 0 THEN "-" ELSE "")
        \o ToString(size \div 10) \o "." \o ToString(size % 10)

\* int(text): the integer the text spells, or ValueError
ParseInt(text) ==
    IF \E n \in Literals : ToString(n) = text
    THEN PyInt(CHOOSE n \in Literals : ToString(n) = text)
    ELSE Raising("ValueError")

\* float(text): the float the text spells, or ValueError
ParseFloat(text) ==
    IF \E n \in Literals : ToString(n) = text
    THEN PyFloat(10 * (CHOOSE n \in Literals : ToString(n) = text))
    ELSE IF \E tenths \in Literals : Repr(tenths) = text
    THEN PyFloat(CHOOSE tenths \in Literals : Repr(tenths) = text)
    ELSE Raising("ValueError")

\* str(value)
StrOf(value) ==
    CASE value.type = "bool" -> IF value.num = 1 THEN "True" ELSE "False"
      [] value.type = "int" -> ToString(value.num)
      [] value.type = "float" -> Repr(value.num)
      [] value.type = "str" -> value.text
      [] OTHER -> "None"

\* type(value), for the types of the settings: bool(value), int(value),
\* float(value) or str(value), or the exception it raises
Convert(type, value) ==
    CASE type = "bool" -> PyBool(Truthy(value))
      [] type = "str" -> PyStr(StrOf(value))
      [] type = "int" ->
            CASE value.type \in {"bool", "int"} -> PyInt(value.num)
              [] value.type = "float" ->
                    PyInt(IF value.num >= 0 THEN value.num \div 10
                          ELSE 0 - ((0 - value.num) \div 10))
              [] value.type = "str" -> ParseInt(value.text)
              [] OTHER -> Raising("TypeError")
      [] type = "float" ->
            CASE value.type \in {"bool", "int"} -> PyFloat(value.num * 10)
              [] value.type = "float" -> value
              [] value.type = "str" -> ParseFloat(value.text)
              [] OTHER -> Raising("TypeError")

\* ------------------------------------------------------------ the settings
DefaultThreshold == 7

DefaultMaxSamples == 10000

\* the four dataclasses as constructed
ToxicityConfig ==
    [default_threshold |-> PyFloat(DefaultThreshold),
     default_engine |-> PyStr("onnx"),
     always_prompt |-> PyBool(FALSE),
     max_text_length |-> PyInt(10000),
     engine_fallback_enabled |-> PyBool(TRUE),
     performance_monitoring |-> PyBool(TRUE),
     latency_warning_threshold_ms |-> PyInt(50)]

CacheConfig ==
    [enabled |-> PyBool(TRUE), max_size |-> PyInt(1000),
     ttl_seconds |-> PyInt(3600), cleanup_interval_seconds |-> PyInt(300)]

MetricsConfig ==
    [enabled |-> PyBool(TRUE), max_samples |-> PyInt(DefaultMaxSamples),
     export_format |-> PyStr("dict"), storage_file |-> PyNone,
     accuracy_tracking |-> PyBool(TRUE)]

EngineConfig ==
    [onnx_model_path |-> PyNone, perspective_api_key |-> PyNone,
     perspective_api_timeout |-> PyInt(5), heuristic_enabled |-> PyBool(TRUE)]

\* the sections of a ConfigManager before load_config
DefaultConfig ==
    [toxicity |-> ToxicityConfig, cache |-> CacheConfig,
     metrics |-> MetricsConfig, engines |-> EngineConfig]

\* the order in which load_config looks for the sections in a file
Sections == <<"toxicity", "cache", "metrics", "engines">>

\* an assignment inside the lock of the manager: the setattr of
\* update_config, which converts (kind "update"), the setattr of
\* _update_dataclass, which does not (kind "load"), or the replacement of a
\* section by reset_to_defaults (kind "reset")
Write(kind, section, field, value) ==
    [kind |-> kind, section |-> section, field |-> field, value |-> value]

\* lines 184-193 of update_config, and line 288 of _update_dataclass: the
\* value is converted with the type of the current value when convert is
\* set, the current value is not None and the value is not of that type;
\* an exception of the conversion is raised as ValueError
SetField(cfg, section, field, value, convert) ==
    LET current_value == cfg[section][field]
        stored == IF /\ convert
                     /\ current_value.type # "NoneType"
                     /\ ~IsInstance(value, current_value.type)
                  THEN Convert(current_value.type, value)
                  ELSE value
    IN IF Raises(stored) THEN [config |-> cfg, raised |-> "ValueError"]
       ELSE [config |-> [cfg EXCEPT ![section][field] = stored], raised |-> ""]

\* one assignment on the manager cfg
Store(cfg, w) ==
    IF w.kind = "reset"
    THEN [config |-> [cfg EXCEPT ![w.section] = DefaultConfig[w.section]],
          raised |-> ""]
    ELSE SetField(cfg, w.section, w.field, w.value, w.kind = "update")

\* the assignments in order, up to the first that raises
RECURSIVE StoreAll(_, _)
StoreAll(cfg, writes) ==
    IF writes = << >> THEN [config |-> cfg, raised |-> ""]
    ELSE LET r == Store(cfg, writes[1]) IN
         IF r.raised # "" THEN r ELSE StoreAll(r.config, Tail(writes))

\* lines 163-178 of update_config: the section is not one of the four, or
\* a field is not a field of its dataclass; ValueError before anything is set
Refuses(section, updates) ==
    \/ section \notin DOMAIN DefaultConfig
    \/ \E i \in DOMAIN updates : updates[i][1] \notin DOMAIN DefaultConfig[section]

\* the assignments of update_config(section, updates), one for each field
UpdateWrites(section, updates) ==
    [i \in DOMAIN updates |-> Write("update", section, updates[i][1], updates[i][2])]

\* what json.load gives: found and parses say whether the file is there and
\* is JSON, data lists its sections, each with its fields in order
ConfigFile(found, parses, data) == [found |-> found, parses |-> parses, data |-> data]

\* the assignments of _update_dataclass for one section of the file: the
\* fields the dataclass has, with the values as they are in the file
SectionWrites(section, fields) ==
    LET known == SelectSeq(fields, LAMBDA f : f[1] \in DOMAIN DefaultConfig[section]) IN
    [i \in DOMAIN known |-> Write("load", section, known[i][1], known[i][2])]

\* the assignments of load_config for the sections from the i-th on
RECURSIVE LoadWrites(_, _)
LoadWrites(config_data, i) ==
    IF i > Len(Sections) THEN << >>
    ELSE LET here == SelectSeq(config_data.data, LAMBDA d : d[1] = Sections[i]) IN
         (IF here = << >> THEN << >> ELSE SectionWrites(Sections[i], here[1][2]))
             \o LoadWrites(config_data, i + 1)

\* load_config on the manager cfg: no file or no JSON leaves it as it is
LoadOp(cfg, config_data) ==
    IF config_data.found /\ config_data.parses
    THEN StoreAll(cfg, LoadWrites(config_data, 1)).config
    ELSE cfg

\* the environment variables that _apply_env_overrides reads, with the
\* section, the field and the converter of each, in the order of the table
EnvMappings ==
    <<<<"REFLECTPAUSE_THRESHOLD", "toxicity", "default_threshold", "float">>,
      <<"REFLECTPAUSE_ENGINE", "toxicity", "default_engine", "str">>,
      <<"REFLECTPAUSE_ALWAYS_PROMPT", "toxicity", "always_prompt", "true">>,
      <<"REFLECTPAUSE_CACHE_SIZE", "cache", "max_size", "int">>,
      <<"REFLECTPAUSE_CACHE_TTL", "cache", "ttl_seconds", "int">>,
      <<"REFLECTPAUSE_CACHE_ENABLED", "cache", "enabled", "true">>,
      <<"REFLECTPAUSE_METRICS_ENABLED", "metrics", "enabled", "true">>,
      <<"REFLECTPAUSE_ONNX_MODEL_PATH", "engines", "onnx_model_path", "str">>,
      <<"REFLECTPAUSE_API_KEY", "engines", "perspective_api_key", "str">>>>

\* x.lower() == 'true', for the texts of the model
IsTrue(text) == text \in {"true", "True", "TRUE"}

\* converter(value) of an environment variable, whose value is a text
EnvValue(converter, text) ==
    IF converter = "true" THEN PyBool(IsTrue(text))
    ELSE Convert(converter, PyStr(text))

\* _apply_env_overrides from the i-th variable on; env lists the variables
\* that are set, with their texts; a variable whose conversion or update
\* raises is skipped
RECURSIVE ApplyEnvOverrides(_, _, _)
ApplyEnvOverrides(cfg, env, i) ==
    IF i > Len(EnvMappings) THEN cfg
    ELSE LET m == EnvMappings[i]
             set == SelectSeq(env, LAMBDA e : e[1] = m[1])
             value == EnvValue(m[4], set[1][2])
             r == SetField(cfg, m[2], m[3], value, TRUE)
         IN ApplyEnvOverrides(IF set = << >> \/ Raises(value) THEN cfg ELSE r.config,
                              env, i + 1)

\* ConfigManager(): the defaults, load_config and the environment
NewConfigManager(config_data, env) ==
    ApplyEnvOverrides(LoadOp(DefaultConfig, config_data), env, 1)

\* ------------------------------------------------------------ core.check
\* str.strip of the texts of the model
Strip(text) == IF text = " " THEN "" ELSE text

\* what a call of check leaves: the cache, the collector, the engine, the
\* exception or the value, and the calls it made to them in order
Checked(s, c, e, raised, value, trace) ==
    [state |-> s, collector |-> c, engine |-> e, raised |-> raised,
     value |-> value, trace |-> trace]

\* variant: a score equal to the threshold counts as toxic
ExceedsThreshold_Inclusive(toxicity_score, threshold) == toxicity_score >= threshold

\* result = toxicity_score > threshold
ExceedsThreshold(toxicity_score, threshold) == toxicity_score > threshold

\* variant: the arguments are tested after the engine has been created
Rejects_Nothing(text, threshold) == FALSE

\* the two tests of the arguments that raise ValueError, for a threshold
\* that is a number, in tenths
Rejects(text, threshold) ==
    \/ text = "" \/ Strip(text) = ""
    \/ ~(0 <= threshold /\ threshold <= 10)

\* variant: a cached score is analysed again
IsHit_Never(cached_score) == FALSE

\* cached_score is not None
IsHit(cached_score) == cached_score # None

\* variant: the score is cached before the engine is known to have succeeded
FailedAnalysis_Cached(s, text, engine_type, t) ==
    PutOp(s, text, engine_type, 0, t).state

\* the cache after an analyze that raised: nothing is put
FailedAnalysis(s, text, engine_type, t) == s

\* the threshold of a call: the argument, a float given in tenths, or for
\* None the default of the settings, whatever value it holds
ThresholdOf(args, cfg) ==
    IF Len(args) >= 2 /\ args[2] # None THEN PyFloat(args[2])
    ELSE cfg.toxicity.default_threshold

\* variant: only the argument counts, the configured setting is not read
AlwaysPromptOf_ArgumentOnly(args, cfg) == Len(args) >= 3 /\ args[3]

\* always_prompt of a call as line 57 tests it: the argument, or the truth
\* value of the setting
AlwaysPromptOf(args, cfg) ==
    IF Len(args) >= 3 THEN args[3] ELSE Truthy(cfg.toxicity.always_prompt)

\* line 100 raises TypeError: monitoring is on and the latency target is
\* not a number
MonitorRaises(cfg) ==
    /\ Truthy(cfg.toxicity.performance_monitoring)
    /\ Incomparable(cfg.toxicity.latency_warning_threshold_ms)

\* check(*args) on the cache s, the collector c, the engine e and the
\* ConfigManager cfg.  ts are the readings of the clock that the call can
\* make, in order: ts[1] by the expiry test of cache.get, ts[2] for the
\* access time of a hit, ts[3] by cache.put, ts[4] for the hour of
\* record_toxicity_check, ts[5] for the hour of the record of the except
\* clause when line 100 raises.  args is (text), (text, threshold) or (text,
\* threshold, always_prompt), threshold None for the default.  fault says
\* whether the creation of the engine or analyze raises, score is what
\* analyze returns, duration_ms what the two readings of perf_counter give.
CheckOp(s, c, e, cfg, args, fault, score, duration_ms, ts) ==
    LET text == args[1]
        threshold == ThresholdOf(args, cfg)
        always_prompt == AlwaysPromptOf(args, cfg)
        failed(recorded, engine_type) ==
            RecordToxicityCheckOp(recorded, FALSE, 0, engine_type, duration_ms,
                                  FALSE, TRUE, ts[4])
        monitored(state, recorded, engine_type, result, trace) ==
            IF MonitorRaises(cfg)
            THEN Checked(state,
                         RecordToxicityCheckOp(recorded, FALSE, 0, engine_type,
                                               duration_ms, FALSE, TRUE, ts[5]),
                         engine_type,
                         "RuntimeError", None, Append(trace, "record_toxicity_check"))
            ELSE Checked(state, recorded, engine_type, "", result, trace)
    IN
    IF Rejects(text, 0)
    THEN Checked(s, c, e, "ValueError", None, << >>)
    ELSE IF Incomparable(threshold)
    THEN Checked(s, c, e, "TypeError", None, << >>)
    ELSE IF Rejects(text, Tenths(threshold))
    THEN Checked(s, c, e, "ValueError", None, << >>)
    ELSE IF always_prompt
    THEN Checked(s, c, e, "", TRUE, << >>)
    ELSE IF e = NoArg /\ fault = "create"
    THEN Checked(s, failed(c, "unknown"), e, "RuntimeError", None,
                 <<"ONNXEngine", "record_toxicity_check">>)
    ELSE
    LET created == IF e = NoArg THEN <<"ONNXEngine">> ELSE << >>
        engine_type == "onnx"
        got == GetOp(s, text, engine_type, ts[1], ts[2])
        cached_score == got.ret
    IN
    IF IsHit(cached_score)
    THEN LET result == ExceedsThreshold(cached_score, Tenths(threshold)) IN
         monitored(got.state,
                   RecordToxicityCheckOp(c, result, cached_score, engine_type,
                                         duration_ms, TRUE, FALSE, ts[4]),
                   engine_type, result,
                   created \o <<"get", "record_toxicity_check">>)
    ELSE IF fault = "analyze"
    THEN Checked(FailedAnalysis(got.state, text, engine_type, ts[3]),
                 failed(c, engine_type), engine_type, "RuntimeError", None,
                 created \o <<"get", "analyze", "record_toxicity_check">>)
    ELSE LET result == ExceedsThreshold(score, Tenths(threshold)) IN
         monitored(PutOp(got.state, text, engine_type, score, ts[3]).state,
                   RecordToxicityCheckOp(c, result, score, engine_type,
                                         duration_ms, FALSE, FALSE, ts[4]),
                   engine_type, result,
                   created \o <<"get", "analyze", "put", "record_toxicity_check">>)

\* ------------------------------------------------------------- idle objects
\* A specification that exercises one object leaves the others as constructed.
\* what the last call was and what it handed back
Outcome(op, format, r) ==
    [op |-> op, format |-> format, raised |-> r.raised, value |-> r.value]

IdleCollector ==
    /\ collector = NewCollector(CHOOSE cap \in SampleCaps :
                                    \A other \in SampleCaps : cap <= other, 0, 0)
    /\ m_calls = 0
    /\ m_ret = Outcome("none", NoArg, Ok(None))

\* what the last call on the tracker was, with its arguments, and what it
\* handed back
Called(op, args, r) ==
    [op |-> op, args |-> args, raised |-> r.raised, value |-> r.value]

\* the last call of check that has returned: its number, its arguments, the
\* threshold it used, what the engine did in it, what it raised or returned,
\* the calls it made and whether no other check ran beside it
NoCheck ==
    [n |-> 0, args |-> << >>, threshold |-> PyNone, fault |-> "none",
     raised |-> "", value |-> None, trace |-> << >>, alone |-> FALSE]

IdleCore ==
    /\ engine = NoArg
    /\ config = << >>
    /\ c_calls = 0
    /\ c_ret = NoCheck

\* no thread is in a call and no lock is held: holder names, for the lock of
\* each object, the thread inside its 'with self._lock' (0 for none), task
\* the position and the locals of each thread, seen what the threads have
\* observed so far; breakdown is the value get_hourly_breakdown returned last;
\* globals holds the module-level instances (_global_cache, _global_collector,
\* _global_tracker, _toxicity_engine): slot is the
\* instance each name is bound to (0 for None), made the number of instances
\* constructed so far
Singletons == {"cache", "collector", "tracker", "engine"}

NoGlobals == [slot |-> [k \in Singletons |-> 0], made |-> [k \in Singletons |-> 0]]

NoLocks == [cache |-> 0, collector |-> 0, tracker |-> 0]

IdleTask == [pc |-> "idle"]

IdleProcs ==
    /\ holder = NoLocks
    /\ task = [t \in Threads |-> IdleTask]
    /\ seen = << >>
    /\ breakdown = << >>
    /\ globals = NoGlobals

IdleTracker ==
    /\ tracker = NewTracker
    /\ fb_calls = [engine_type \in Engines |-> 0]
    /\ a_ret = Called("none", << >>, Ok(None))
    /\ storage_file = NoArg
    /\ disk = NoFile
    /\ io = << >>

\* --------------------------------------------------- sequential specification
Self == [cache |-> cache, access_times |-> access_times, stats |-> stats]

Apply(r) ==
    /\ cache' = r.state.cache
    /\ access_times' = r.state.access_times
    /\ stats' = r.state.stats

\* A calling thread: its position, its arguments and locals, its return value;
\* expect is the return value of the same call made on lin, the cache state
\* that the completed calls produce when applied one at a time.
IdleThread ==
    [pc |-> "idle", op |-> "none", text |-> NoArg, engine_type |-> NoArg,
     toxicity_score |-> None, key |-> NoArg, current_time |-> None,
     t1 |-> None, t2 |-> None, result |-> CacheResult(NoArg, None, None, NoArg),
     lru_key |-> NoArg, keys |-> << >>, count |-> 0,
     ret |-> None, expect |-> None]

Init ==
    /\ lock = 0
    /\ th = [t \in Threads |-> IdleThread]
    /\ lin = [cache |-> << >>, access_times |-> << >>,
              stats |-> [hits |-> 0, misses |-> 0, evictions |-> 0, expired |-> 0]]
    /\ max_size \in Capacities
    /\ ttl_seconds \in Ttls
    /\ cache = << >>
    /\ access_times = << >>
    /\ stats = [hits |-> 0, misses |-> 0, evictions |-> 0, expired |-> 0]
    /\ now = 0
    /\ calls = 0
    /\ ret = None
    /\ IdleCollector
    /\ IdleTracker
    /\ IdleCore
    /\ IdleProcs

Tick ==
    /\ now < MaxTime
    /\ now' = now + 1
    /\ UNCHANGED <<cacheVars, calls, ret, threadVars, metricsVars, accuracyVars, coreVars, procVars>>

Get(text, engine_type) ==
    /\ calls < MaxCalls
    /\ \E ts \in Readings(2, now) :
         /\ LET r == GetOp(Self, text, engine_type, ts[1], ts[2]) IN
              /\ Apply(r)
              /\ ret' = r.ret
              /\ now' = IF ~HasKey(cache, GenerateKey(text, engine_type)) THEN now
                        ELSE IF r.ret = None THEN ts[1] ELSE ts[2]
    /\ calls' = calls + 1
    /\ UNCHANGED <<max_size, ttl_seconds, threadVars, metricsVars, accuracyVars, coreVars, procVars>>

Put(text, engine_type, score) ==
    /\ calls < MaxCalls
    /\ LET r == PutOp(Self, text, engine_type, score, now) IN
         /\ Apply(r)
         /\ ret' = r.ret
    /\ calls' = calls + 1
    /\ UNCHANGED <<max_size, ttl_seconds, now, threadVars, metricsVars, accuracyVars, coreVars, procVars>>

Invalidate(text, engine_type) ==
    /\ calls < MaxCalls
    /\ LET r == InvalidateOp(Self, text, engine_type) IN
         /\ Apply(r)
         /\ ret' = r.ret
    /\ calls' = calls + 1
    /\ UNCHANGED <<max_size, ttl_seconds, now, threadVars, metricsVars, accuracyVars, coreVars, procVars>>

CleanupExpired ==
    /\ calls < MaxCalls
    /\ \E ts \in Readings(Len(cache), now) :
         /\ LET r == CleanupExpiredOp(Self, ts) IN
              /\ Apply(r)
              /\ ret' = r.ret
         /\ now' = IF ts = << >> THEN now ELSE ts[Len(ts)]
    /\ calls' = calls + 1
    /\ UNCHANGED <<max_size, ttl_seconds, threadVars, metricsVars, accuracyVars, coreVars, procVars>>

GetStats ==
    /\ calls < MaxCalls
    /\ LET r == GetStatsOp(Self) IN
         /\ Apply(r)
         /\ ret' = r.ret.size
    /\ calls' = calls + 1
    /\ UNCHANGED <<max_size, ttl_seconds, now, threadVars, metricsVars, accuracyVars, coreVars, procVars>>

ResetStats ==
    /\ calls < MaxCalls
    /\ LET r == ResetStatsOp(Self) IN
         /\ Apply(r)
         /\ ret' = r.ret
    /\ calls' = calls + 1
    /\ UNCHANGED <<max_size, ttl_seconds, now, threadVars, metricsVars, accuracyVars, coreVars, procVars>>

Next ==
    \/ Tick
    \/ \E text \in Texts, engine_type \in Engines : Get(text, engine_type)
    \/ \E text \in Texts, engine_type \in Engines, score \in Scores :
           Put(text, engine_type, score)
    \/ \E text \in Texts \cup {NoArg}, engine_type \in Engines \cup {NoArg} :
           Invalidate(text, engine_type)
    \/ CleanupExpired
    \/ GetStats
    \/ ResetStats

Spec == Init /\ [][Next]_vars

\* --------------------------------------------------- concurrent specification
\* Several threads call the cache.  A call computes its key (and, for put,
\* reads the clock) before it takes the lock; under the lock its body runs
\* statement by statement; the return releases the lock.

\* variant: the operations run without taking the lock
LockFree_NoLock(t) == TRUE

\* with self._lock: enter when no other thread holds it
LockFree(t) == lock = 0

FirstStep(op) ==
    CASE op = "get" -> "get_lookup"
      [] op = "put" -> "put_evict"
      [] op = "invalidate" -> "inv_select"
      [] op = "cleanup_expired" -> "cln_select"
      [] op = "get_stats" -> "stats_read"
      [] op = "reset_stats" -> "stats_reset"

\* the list, in iteration order, of the keys of c that are in the set S
KeyList(c, S) ==
    LET hit == SelectSeq(c, LAMBDA r : r.key \in S) IN [i \in DOMAIN hit |-> hit[i].key]

Frame == UNCHANGED <<max_size, ttl_seconds, now, calls, ret, metricsVars, accuracyVars, coreVars, procVars>>

Call(t, op, text, engine_type, score, current_time) ==
    /\ th[t].pc = "idle"
    /\ calls < MaxConcCalls
    /\ calls' = calls + 1
    /\ th' = [th EXCEPT ![t] =
                [IdleThread EXCEPT !.pc = "acquire", !.op = op, !.text = text,
                                   !.engine_type = engine_type,
                                   !.toxicity_score = score,
                                   !.current_time = current_time]]
    /\ UNCHANGED <<cacheVars, now, ret, lock, lin, metricsVars, accuracyVars, coreVars, procVars>>

CallGet(t, text, engine_type) == Call(t, "get", text, engine_type, None, None)

\* put reads time.time() before it takes the lock
CallPut(t, text, engine_type, score) == Call(t, "put", text, engine_type, score, now)

CallInvalidate(t, text, engine_type) ==
    Call(t, "invalidate", text, engine_type, None, None)

CallCleanupExpired(t) == Call(t, "cleanup_expired", NoArg, NoArg, None, None)

CallGetStats(t) == Call(t, "get_stats", NoArg, NoArg, None, None)

CallResetStats(t) == Call(t, "reset_stats", NoArg, NoArg, None, None)

Acquire(t) ==
    /\ th[t].pc = "acquire"
    /\ LockFree(t)
    /\ lock' = t
    /\ th' = [th EXCEPT ![t].pc = FirstStep(th[t].op),
                        ![t].key = IF th[t].op \in {"get", "put"}
                                   THEN GenerateKey(th[t].text, th[t].engine_type)
                                   ELSE NoArg]
    /\ UNCHANGED <<cacheVars, lin>>
    /\ Frame

\* return value and release; r is the same call applied to lin
Return(t, value, r) ==
    /\ th' = [th EXCEPT ![t] =
                [IdleThread EXCEPT !.op = th[t].op, !.text = th[t].text,
                                   !.engine_type = th[t].engine_type,
                                   !.toxicity_score = th[t].toxicity_score,
                                   !.current_time = th[t].current_time,
                                   !.ret = value, !.expect = r.ret]]
    /\ lin' = r.state
    /\ lock' = 0

Goto(t, pc) ==
    /\ th' = [th EXCEPT ![t].pc = pc]
    /\ UNCHANGED <<lock, lin>>

\* get, lines 67-71
GetLookup(t) ==
    /\ th[t].pc = "get_lookup"
    /\ IF ~HasKey(cache, th[t].key)
       THEN /\ stats' = [stats EXCEPT !.misses = @ + 1]
            /\ Return(t, None, GetOp(lin, th[t].text, th[t].engine_type, now, now))
       ELSE /\ th' = [th EXCEPT ![t].pc = "get_expiry",
                                ![t].result = Lookup(cache, th[t].key)]
            /\ UNCHANGED <<stats, lock, lin>>
    /\ UNCHANGED <<cache, access_times>>
    /\ Frame

\* get, lines 74-75
GetExpiry(t) ==
    /\ th[t].pc = "get_expiry"
    /\ IF IsExpired(th[t].result, now)
       THEN /\ cache' = DictDel(cache, th[t].key)
            /\ th' = [th EXCEPT ![t].pc = "get_expired", ![t].t1 = now]
       ELSE /\ cache' = cache
            /\ th' = [th EXCEPT ![t].pc = "get_touch", ![t].t1 = now]
    /\ UNCHANGED <<access_times, stats, lock, lin>>
    /\ Frame

\* get, lines 76-79
GetExpired(t) ==
    /\ th[t].pc = "get_expired"
    /\ access_times' = DictDel(access_times, th[t].key)
    /\ stats' = [stats EXCEPT !.expired = @ + 1, !.misses = @ + 1]
    /\ Return(t, None, GetOp(lin, th[t].text, th[t].engine_type, th[t].t1, th[t].t1))
    /\ UNCHANGED cache
    /\ Frame

\* get, line 82
GetTouch(t) ==
    /\ th[t].pc = "get_touch"
    /\ access_times' = DictSet(access_times, th[t].key,
                               [key |-> th[t].key, time |-> now])
    /\ th' = [th EXCEPT ![t].pc = "get_hit", ![t].t2 = now]
    /\ UNCHANGED <<cache, stats, lock, lin>>
    /\ Frame

\* get, lines 83-87
GetHit(t) ==
    /\ th[t].pc = "get_hit"
    /\ cache' = IF HasKey(cache, th[t].key)
                THEN DictSet(cache, th[t].key, TouchResult(Lookup(cache, th[t].key)))
                ELSE cache
    /\ stats' = [stats EXCEPT !.hits = @ + 1]
    /\ Return(t, th[t].result.toxicity_score,
              GetOp(lin, th[t].text, th[t].engine_type, th[t].t1, th[t].t2))
    /\ UNCHANGED access_times
    /\ Frame

\* put, lines 103-104 and _evict_lru, lines 216-223
PutEvict(t) ==
    /\ th[t].pc = "put_evict"
    /\ IF NeedsEviction(Self, th[t].key) /\ access_times # << >>
       THEN LET lru_key == LruKey(access_times) IN
            /\ cache' = DictDel(cache, lru_key)
            /\ th' = [th EXCEPT ![t].pc = "put_evicted", ![t].lru_key = lru_key]
       ELSE /\ cache' = cache
            /\ th' = [th EXCEPT ![t].pc = "put_store"]
    /\ UNCHANGED <<access_times, stats, lock, lin>>
    /\ Frame

\* _evict_lru, lines 224-225
PutEvicted(t) ==
    /\ th[t].pc = "put_evicted"
    /\ access_times' = DictDel(access_times, th[t].lru_key)
    /\ stats' = [stats EXCEPT !.evictions = @ + 1]
    /\ Goto(t, "put_store")
    /\ UNCHANGED cache
    /\ Frame

\* put, lines 107-112
PutStore(t) ==
    /\ th[t].pc = "put_store"
    /\ cache' = DictSet(cache, th[t].key,
                        CacheResult(th[t].key, th[t].toxicity_score,
                                    th[t].current_time, th[t].engine_type))
    /\ Goto(t, "put_stamp")
    /\ UNCHANGED <<access_times, stats>>
    /\ Frame

\* put, lines 113-115
PutStamp(t) ==
    /\ th[t].pc = "put_stamp"
    /\ access_times' = DictSet(access_times, th[t].key,
                               [key |-> th[t].key, time |-> th[t].current_time])
    /\ Return(t, None, PutOp(lin, th[t].text, th[t].engine_type,
                             th[t].toxicity_score, th[t].current_time))
    /\ UNCHANGED <<cache, stats>>
    /\ Frame

\* invalidate, lines 129-131, 137-141 and 147-149
InvalidateSelect(t) ==
    /\ th[t].pc = "inv_select"
    /\ IF th[t].text # NoArg
       THEN LET k == GenerateKey(th[t].text,
                                 IF th[t].engine_type = NoArg THEN ""
                                 ELSE th[t].engine_type)
                keys == IF HasKey(cache, k) THEN <<k>> ELSE << >>
            IN /\ th' = [th EXCEPT ![t].pc = "inv_remove", ![t].key = k,
                                   ![t].keys = keys, ![t].count = Len(keys)]
               /\ cache' = cache
       ELSE IF th[t].engine_type # NoArg
       THEN LET keys == KeyList(cache, KeysOfEngine(Self, th[t].engine_type))
            IN /\ th' = [th EXCEPT ![t].pc = "inv_remove",
                                   ![t].keys = keys, ![t].count = Len(keys)]
               /\ cache' = cache
       ELSE /\ th' = [th EXCEPT ![t].pc = "inv_clear", ![t].count = Len(cache)]
            /\ cache' = << >>
    /\ UNCHANGED <<access_times, stats, lock, lin>>
    /\ Frame

\* invalidate, lines 132-133 and 142-144: one key removed from both dicts
InvalidateRemove(t) ==
    /\ th[t].pc = "inv_remove"
    /\ th[t].keys # << >>
    /\ cache' = DictDel(cache, Head(th[t].keys))
    /\ access_times' = DictDel(access_times, Head(th[t].keys))
    /\ th' = [th EXCEPT ![t].keys = Tail(@)]
    /\ UNCHANGED <<stats, lock, lin>>
    /\ Frame

\* invalidate, lines 134-135 and 145
InvalidateReturn(t) ==
    /\ th[t].pc = "inv_remove"
    /\ th[t].keys = << >>
    /\ Return(t, th[t].count, InvalidateOp(lin, th[t].text, th[t].engine_type))
    /\ UNCHANGED <<cache, access_times, stats>>
    /\ Frame

\* invalidate, lines 150-151
InvalidateClear(t) ==
    /\ th[t].pc = "inv_clear"
    /\ access_times' = << >>
    /\ Return(t, th[t].count, InvalidateOp(lin, th[t].text, th[t].engine_type))
    /\ UNCHANGED <<cache, stats>>
    /\ Frame

\* cleanup_expired, lines 161-164
CleanupSelect(t) ==
    /\ th[t].pc = "cln_select"
    /\ \E ts \in Readings(Len(cache), now) :
         /\ LET keys == KeyList(cache, ExpiredKeys(Self, ts)) IN
            th' = [th EXCEPT ![t].pc = "cln_remove", ![t].t1 = ts,
                             ![t].keys = keys, ![t].count = Len(keys)]
         /\ now' = IF ts = << >> THEN now ELSE ts[Len(ts)]
    /\ UNCHANGED <<cache, access_times, stats, lock, lin>>
    /\ UNCHANGED <<max_size, ttl_seconds, calls, ret, metricsVars, accuracyVars, coreVars, procVars>>

\* cleanup_expired, lines 166-168: one key removed from both dicts
CleanupRemove(t) ==
    /\ th[t].pc = "cln_remove"
    /\ th[t].keys # << >>
    /\ cache' = DictDel(cache, Head(th[t].keys))
    /\ access_times' = DictDel(access_times, Head(th[t].keys))
    /\ th' = [th EXCEPT ![t].keys = Tail(@)]
    /\ UNCHANGED <<stats, lock, lin>>
    /\ Frame

\* cleanup_expired, lines 170-174
CleanupReturn(t) ==
    /\ th[t].pc = "cln_remove"
    /\ th[t].keys = << >>
    /\ stats' = IF th[t].count > 0
                THEN [stats EXCEPT !.expired = @ + th[t].count] ELSE stats
    /\ Return(t, th[t].count, CleanupExpiredOp(lin, th[t].t1))
    /\ UNCHANGED <<cache, access_times>>
    /\ Frame

\* get_stats, lines 183-192
StatsRead(t) ==
    /\ th[t].pc = "stats_read"
    /\ Return(t, GetStatsOp(Self).ret, GetStatsOp(lin))
    /\ UNCHANGED <<cache, access_times, stats>>
    /\ Frame

\* reset_stats, lines 196-202
StatsReset(t) ==
    /\ th[t].pc = "stats_reset"
    /\ stats' = ResetStatsOp(Self).state.stats
    /\ Return(t, None, ResetStatsOp(lin))
    /\ UNCHANGED <<cache, access_times>>
    /\ Frame

NextConc ==
    \/ Tick
    \/ \E t \in Threads :
         \/ \E text \in Texts, engine_type \in Engines : CallGet(t, text, engine_type)
         \/ \E text \in Texts, engine_type \in Engines, score \in Scores :
                CallPut(t, text, engine_type, score)
         \/ \E text \in Texts \cup {NoArg}, engine_type \in Engines \cup {NoArg} :
                CallInvalidate(t, text, engine_type)
         \/ CallCleanupExpired(t)
         \/ CallGetStats(t)
         \/ CallResetStats(t)
         \/ Acquire(t)
         \/ GetLookup(t)
         \/ GetExpiry(t)
         \/ GetExpired(t)
         \/ GetTouch(t)
         \/ GetHit(t)
         \/ PutEvict(t)
         \/ PutEvicted(t)
         \/ PutStore(t)
         \/ PutStamp(t)
         \/ InvalidateSelect(t)
         \/ InvalidateRemove(t)
         \/ InvalidateReturn(t)
         \/ InvalidateClear(t)
         \/ CleanupSelect(t)
         \/ CleanupRemove(t)
         \/ CleanupReturn(t)
         \/ StatsRead(t)
         \/ StatsReset(t)

SpecConc == Init /\ [][NextConc]_vars

\* ------------------------------------------------------------------ claims
\* A step that is the given call.  The first conjuncts follow from the action
\* and only spare its evaluation on the steps of other calls.
GetStep(text, engine_type) ==
    /\ calls' = calls + 1
    /\ stats'.hits + stats'.misses = stats.hits + stats.misses + 1
    /\ Get(text, engine_type)

PutStep(text, engine_type, score) ==
    /\ calls' = calls + 1
    /\ ret' = None
    /\ now' = now
    /\ stats'.hits + stats'.misses = stats.hits + stats.misses
    /\ Put(text, engine_type, score)

InvalidateStep(text, engine_type) ==
    /\ calls' = calls + 1
    /\ ret' # None
    /\ now' = now
    /\ stats' = stats
    /\ Invalidate(text, engine_type)

CleanupExpiredStep ==
    /\ calls' = calls + 1
    /\ ret' # None
    /\ stats'.hits + stats'.misses = stats.hits + stats.misses
    /\ CleanupExpired

Unique(d) == \A i, j \in DOMAIN d : d[i].key = d[j].key => i = j

\* the age test of the cache as the contract words it: now - insertedAt > ttl
Stale(result, t) == t - result.timestamp > ttl_seconds

\* C1: a put of an absent key into a full cache evicts exactly one entry
\* (evictions + 1, size stays at capacity), and the evicted entry is the first
\* one, in iteration order, among those with the smallest last access time;
\* the last access time of a key is refreshed by every get hit and every put.
C1_LruEviction ==
    [][/\ \A text \in Texts, engine_type \in Engines, score \in Scores :
            LET k == GenerateKey(text, engine_type) IN
            PutStep(text, engine_type, score)
            => /\ Lookup(access_times', k).time = now
               /\ (Len(cache) = max_size /\ ~HasKey(cache, k))
                  => /\ stats'.evictions = stats.evictions + 1
                     /\ Len(cache') = max_size
                     /\ \E v \in Keys(cache) :
                          /\ Keys(cache') = (Keys(cache) \ {v}) \cup {k}
                          /\ Keys(access_times') = Keys(cache')
                          /\ LET i == KeyIndex(access_times, v) IN
                             \A j \in DOMAIN access_times :
                                \/ access_times[i].time < access_times[j].time
                                \/ /\ access_times[i].time = access_times[j].time
                                   /\ i <= j
       /\ \A text \in Texts, engine_type \in Engines :
            (ret' # None /\ GetStep(text, engine_type))
            => Lookup(access_times', GenerateKey(text, engine_type)).time = now'
      ]_vars

\* C1 witness: capacity 2, the first-inserted entry was read and survived the
\* eviction that removed the entry inserted after it.
C1_Witness ==
    /\ max_size = 2
    /\ stats.evictions = 1
    /\ Len(cache) = 2
    /\ cache[1].hit_count = 1

\* C2 as stated: a get returns the score while now < insertedAt + ttl and
\* absent from now >= insertedAt + ttl on.
C2_TtlExpiryAsStated ==
    [][\A text \in Texts, engine_type \in Engines :
         LET k == GenerateKey(text, engine_type) IN
         (GetStep(text, engine_type) /\ HasKey(cache, k))
         => LET r == Lookup(cache, k) IN
            /\ now < r.timestamp + ttl_seconds => ret' = r.toxicity_score
            /\ now >= r.timestamp + ttl_seconds => ret' = None
      ]_vars

\* C2 (amended): a get of an entry put at T returns the stored score at every
\* time <= T + ttl and absent at every time > T + ttl; a hit leaves insertedAt
\* alone, so hits do not extend the lifetime; the get that finds the entry
\* expired removes it, adds 1 to expired and 1 to misses and leaves hits.
C2_TtlExpiry ==
    [][\A text \in Texts, engine_type \in Engines :
         LET k == GenerateKey(text, engine_type) IN
         (GetStep(text, engine_type) /\ HasKey(cache, k))
         => LET r == Lookup(cache, k) IN
            /\ now <= r.timestamp + ttl_seconds
               => /\ ret' = r.toxicity_score
                  /\ HasKey(cache', k)
                  /\ Lookup(cache', k).timestamp = r.timestamp
            /\ now > r.timestamp + ttl_seconds
               => /\ ret' = None
                  /\ ~HasKey(cache', k)
                  /\ ~HasKey(access_times', k)
                  /\ stats' = [stats EXCEPT !.expired = @ + 1, !.misses = @ + 1]
      ]_vars

\* C2 witness: put, a hit, then the get that finds the same entry expired.
C2_Witness ==
    /\ calls = 3
    /\ stats = [hits |-> 1, misses |-> 1, evictions |-> 0, expired |-> 1]
    /\ cache = << >>
    /\ ret = None

\* C3: the size reported by get_stats never exceeds max_size.
C3_BoundedSize == GetStatsOp(Self).ret.size <= max_size

\* C3 witness: a full cache of capacity 3 after an eviction.
C3_Witness ==
    /\ max_size = 3
    /\ Len(cache) = 3
    /\ stats.evictions = 1

\* C4: at most one entry per (engine, text); the same text under another engine
\* is a separate entry that a put leaves alone (unless it is the one evicted);
\* a put of a present key overwrites in place: same position, same size, no
\* eviction, every other entry unchanged.
C4_KeyUniqueness ==
    [][/\ Unique(cache')
       /\ Unique(access_times')
       /\ \A text \in Texts, engine_type \in Engines, score \in Scores :
            LET k == GenerateKey(text, engine_type) IN
            PutStep(text, engine_type, score)
            => /\ HasKey(cache, k)
                  => /\ Len(cache') = Len(cache)
                     /\ stats'.evictions = stats.evictions
                     /\ \A i \in DOMAIN cache :
                          IF cache[i].key = k
                          THEN cache'[i].key = k
                          ELSE cache'[i] = cache[i]
               /\ \A other \in Engines \ {engine_type} :
                    LET k2 == GenerateKey(text, other) IN
                    /\ k2 # k
                    /\ HasKey(cache, k2)
                       => \/ /\ HasKey(cache', k2)
                             /\ Lookup(cache', k2) = Lookup(cache, k2)
                          \/ /\ ~HasKey(cache', k2)
                             /\ stats'.evictions = stats.evictions + 1
      ]_vars

\* C4 witness: a full cache holding text a under both engines, whose first
\* entry was overwritten in place (inserted first, stamped later), no eviction.
C4_Witness ==
    /\ max_size = 2
    /\ Len(cache) = 2
    /\ cache[1].key = "onnx:a"
    /\ cache[2].key = "other:a"
    /\ cache[1].timestamp > cache[2].timestamp
    /\ stats.evictions = 0

\* C5: a get of a present, unexpired key returns the stored score, adds 1 to
\* hits and to the entry's hit count, and changes nothing else of the entry
\* (score, insertedAt), of the other counters or of any other entry.
C5_HitIdempotence ==
    [][\A text \in Texts, engine_type \in Engines :
         LET k == GenerateKey(text, engine_type) IN
         (GetStep(text, engine_type) /\ HasKey(cache, k) /\ ~Stale(Lookup(cache, k), now))
         => LET r == Lookup(cache, k)
                i == KeyIndex(cache, k)
            IN /\ ret' = r.toxicity_score
               /\ stats' = [stats EXCEPT !.hits = @ + 1]
               /\ cache' = [cache EXCEPT ![i] = [r EXCEPT !.hit_count = @ + 1]]
               /\ Len(access_times') = Len(access_times)
               /\ \A j \in DOMAIN access_times :
                    access_times[j].key # k => access_times'[j] = access_times[j]
      ]_vars

\* C5 witness: the same entry hit twice.
C5_Witness ==
    /\ stats.hits = 2
    /\ \E i \in DOMAIN cache : cache[i].hit_count = 2
    /\ ret \in Scores

\* C6: every put, insert or overwrite, leaves the entry with the new score and
\* insertedAt = lastAccessedAt = the time of the put, and no other entry has a
\* later last access time.
C6_PutTimestamps ==
    [][\A text \in Texts, engine_type \in Engines, score \in Scores :
         LET k == GenerateKey(text, engine_type) IN
         PutStep(text, engine_type, score)
         => /\ HasKey(cache', k)
            /\ Lookup(cache', k).toxicity_score = score
            /\ Lookup(cache', k).timestamp = now
            /\ Lookup(access_times', k).time = now
            /\ ~Stale(Lookup(cache', k), now)
            /\ \A j \in DOMAIN access_times' : access_times'[j].time <= now
      ]_vars

\* C6 witness: put, hit, then an overwrite of the same key at a later time
\* (the entry's hit count is back to 0 while the cache counted the hit).
C6_Witness ==
    /\ calls = 3
    /\ Len(cache) = 1
    /\ stats = [hits |-> 1, misses |-> 0, evictions |-> 0, expired |-> 0]
    /\ cache[1].hit_count = 0
    /\ cache[1].timestamp > 0

\* C7: invalidate removes exactly the targeted entries and returns their number.
\* Text and engine: that one entry, 1 if present else 0.  Engine only: every
\* entry of that engine and none of another, whose entries a get still returns.
\* Neither: everything, returning the previous size.
C7_Invalidate ==
    [][\A text \in Texts \cup {NoArg}, engine_type \in Engines \cup {NoArg} :
         InvalidateStep(text, engine_type)
         => /\ stats' = stats
            /\ Keys(access_times') = Keys(cache')
            /\ (text # NoArg /\ engine_type # NoArg)
               => LET k == GenerateKey(text, engine_type) IN
                  /\ cache' = SelectSeq(cache, LAMBDA r : r.key # k)
                  /\ ret' = IF HasKey(cache, k) THEN 1 ELSE 0
            /\ (text = NoArg /\ engine_type # NoArg)
               => /\ cache' = SelectSeq(cache, LAMBDA r : r.engine_type # engine_type)
                  /\ ret' = Len(cache) - Len(cache')
                  /\ \A t2 \in Texts, e2 \in Engines \ {engine_type} :
                       LET k2 == GenerateKey(t2, e2) IN
                       (HasKey(cache, k2) /\ ~Stale(Lookup(cache, k2), now))
                       => GetOp(Self', t2, e2, now, now).ret
                              = Lookup(cache, k2).toxicity_score
            /\ (text = NoArg /\ engine_type = NoArg)
               => /\ cache' = << >>
                  /\ ret' = Len(cache)
      ]_vars

\* C7 witness: 2 onnx entries and 1 other entry, invalidate(engine onnx)
\* returned 2 and the other entry is left.
C7_Witness ==
    /\ calls = 4
    /\ ret = 2
    /\ Len(cache) = 1
    /\ cache[1].engine_type = "other"
    /\ stats = [hits |-> 0, misses |-> 0, evictions |-> 0, expired |-> 0]

\* C8: cleanup_expired removes every entry that is expired at the time of
\* the call and no unexpired entry, read or not, returns their number, adds
\* it to expired and leaves the other counters; immediately afterwards no
\* expired entry remains.  The time of the call is any one clock value t
\* between its first and its last reading of the clock.
C8_CleanupExpired ==
    [][CleanupExpiredStep
       => /\ \E t \in now..now' : cache' = SelectSeq(cache, LAMBDA r : ~Stale(r, t))
          /\ Keys(access_times') = Keys(cache')
          /\ ret' = Len(cache) - Len(cache')
          /\ stats' = [stats EXCEPT !.expired = @ + ret']
          /\ \A i \in DOMAIN cache' : ~Stale(cache'[i], now')
      ]_vars

\* a thread whose last call has returned
Returned(t) == th[t].pc = "idle" /\ th[t].op # "none"

\* C9: under any interleaving of calls from several threads each call takes
\* effect atomically: every returned value is the one the same call returns
\* when the completed calls are applied one at a time, in the order of their
\* returns, and whenever no call is inside the cache the entries and the
\* counters are those of that sequential run (no increment is lost) and the
\* entry map and the access-time map hold the same keys.
C9_Linearizable ==
    /\ \A t \in Threads : Returned(t) => th[t].ret = th[t].expect
    /\ lock = 0
       => /\ Self = lin
          /\ Keys(cache) = Keys(access_times)

\* C9 witness: two puts of one key overlapped (the thread that read the clock
\* first stored last) and both have returned.
C9_Witness ==
    /\ Returned(1)
    /\ Returned(2)
    /\ th[1].op = "put"
    /\ th[2].op = "put"
    /\ th[1].text = th[2].text
    /\ th[1].engine_type = th[2].engine_type
    /\ th[1].current_time < th[2].current_time
    /\ Lookup(cache, GenerateKey(th[1].text, th[1].engine_type)).toxicity_score
           = th[1].toxicity_score
    /\ th[1].toxicity_score # th[2].toxicity_score

\* C10: when two threads put the same key with different scores, after both
\* have returned there is exactly one entry for the key, and its score,
\* insertedAt and lastAccessedAt are those of the put with the later timestamp.
C10_LastWriterWinsOnTimestamp ==
    \A t1, t2 \in Threads :
       ( /\ Returned(t1)
         /\ Returned(t2)
         /\ th[t1].op = "put"
         /\ th[t2].op = "put"
         /\ th[t1].text = th[t2].text
         /\ th[t1].engine_type = th[t2].engine_type
         /\ th[t1].toxicity_score # th[t2].toxicity_score
         /\ th[t1].current_time < th[t2].current_time )
       => LET k == GenerateKey(th[t2].text, th[t2].engine_type) IN
          /\ Unique(cache)
          /\ HasKey(cache, k)
          /\ Lookup(cache, k).toxicity_score = th[t2].toxicity_score
          /\ Lookup(cache, k).timestamp = th[t2].current_time
          /\ Lookup(access_times, k).time = th[t2].current_time

\* ------------------------------------------------ MetricsCollector, one call
\* ------------------------------------------------ at a time
CacheWithStats(s) ==
    /\ lock = 0
    /\ th = [t \in Threads |-> IdleThread]
    /\ lin = [cache |-> << >>, access_times |-> << >>,
              stats |-> [hits |-> 0, misses |-> 0, evictions |-> 0, expired |-> 0]]
    /\ max_size = CHOOSE c \in Capacities : \A other \in Capacities : c <= other
    /\ ttl_seconds = CHOOSE t \in Ttls : \A other \in Ttls : t <= other
    /\ cache = << >>
    /\ access_times = << >>
    /\ stats = s
    /\ calls = 0
    /\ ret = None

IdleCache ==
    CacheWithStats([hits |-> 0, misses |-> 0, evictions |-> 0, expired |-> 0])

\* __init__ reads the clock twice: session_start, then last_reset
InitMetrics ==
    /\ IdleCache
    /\ IdleTracker
    /\ IdleCore
    /\ IdleProcs
    /\ \E cap \in SampleCaps, t1 \in {0, 1} :
         /\ now = t1
         /\ collector = NewCollector(cap, 0, t1)
    /\ m_calls = 0
    /\ m_ret = Outcome("none", NoArg, Ok(None))

MetricsFrame == UNCHANGED <<cacheVars, calls, ret, threadVars, accuracyVars, coreVars, holder, task, seen, globals, now>>

RecordToxicityCheck(result, score, engine_type, duration_ms, was_cached, error) ==
    /\ m_calls < MaxRecords
    /\ m_calls' = m_calls + 1
    /\ collector' = RecordToxicityCheckOp(collector, result, score, engine_type,
                                          duration_ms, was_cached, error, now)
    /\ m_ret' = Outcome("record_toxicity_check", NoArg, Ok(None))
    /\ breakdown' = Aliased(breakdown, collector', {})
    /\ MetricsFrame

ResetMetrics ==
    /\ m_calls < MaxRecords
    /\ m_calls' = m_calls + 1
    /\ collector' = ResetMetricsOp(collector, now)
    /\ m_ret' = Outcome("reset_metrics", NoArg, Ok(None))
    /\ breakdown' = Aliased(breakdown, collector', {breakdown[i].key : i \in DOMAIN breakdown})
    /\ MetricsFrame

GetSummary ==
    /\ m_calls < MaxRecords
    /\ m_calls' = m_calls + 1
    /\ m_ret' = Outcome("get_summary", NoArg, GetSummaryOp(collector, now))
    /\ UNCHANGED <<collector, breakdown>>
    /\ MetricsFrame

ExportMetrics(format) ==
    /\ m_calls < MaxRecords
    /\ m_calls' = m_calls + 1
    /\ m_ret' = Outcome("export_metrics", format, ExportMetricsOp(collector, format, now))
    /\ UNCHANGED <<collector, breakdown>>
    /\ MetricsFrame

NextMetrics ==
    \/ Tick
    \/ \E result \in BOOLEAN, score \in CheckScores, engine_type \in Engines,
          duration_ms \in Durations, was_cached \in BOOLEAN, error \in BOOLEAN :
           RecordToxicityCheck(result, score, engine_type, duration_ms,
                               was_cached, error)
    \/ ResetMetrics
    \/ GetSummary
    \/ \E format \in Formats : ExportMetrics(format)

SpecMetrics == InitMetrics /\ [][NextMetrics]_vars

\* ------------------------------------- MetricsCollector, after a first check
\* The collector has recorded one analysed, successful check.
InitSummary ==
    /\ IdleCache
    /\ IdleTracker
    /\ IdleCore
    /\ IdleProcs
    /\ now = 0
    /\ \E cap \in SampleCaps, score \in CheckScores, duration_ms \in Durations :
         collector = RecordToxicityCheckOp(NewCollector(cap, 0, 0), FALSE, score,
                                           "onnx", duration_ms, FALSE, FALSE, 0)
    /\ m_calls = 0
    /\ m_ret = Outcome("none", NoArg, Ok(None))

SpecSummary == InitSummary /\ [][NextMetrics]_vars

\* ------------------------------------- MetricsCollector, the hourly buckets
\* ------------------------------------- in the hands of a caller
GetHourlyBreakdown ==
    /\ m_calls < MaxRecords
    /\ m_calls' = m_calls + 1
    /\ m_ret' = Outcome("get_hourly_breakdown", NoArg, Ok(None))
    /\ breakdown' = GetHourlyBreakdownOp(collector)
    /\ UNCHANGED collector
    /\ MetricsFrame

\* the caller runs  returned[hour_key]['total_checks'] = 0  on the value it
\* was given: an assignment to the bucket object, which the collector holds
\* too while shared
CallerAssigns(i) ==
    /\ i \in DOMAIN breakdown
    /\ breakdown[i].stats.total_checks # 0
    /\ breakdown' = [breakdown EXCEPT ![i].stats.total_checks = 0]
    /\ collector' =
          IF breakdown[i].shared
          THEN [collector EXCEPT !.hourly_stats =
                   DictSet(@, breakdown[i].key, breakdown'[i].stats)]
          ELSE collector
    /\ m_ret' = Outcome("caller", NoArg, Ok(None))
    /\ UNCHANGED m_calls
    /\ MetricsFrame

\* the caller runs  del returned[hour_key]  on the value it was given
CallerDeletes(i) ==
    /\ i \in DOMAIN breakdown
    /\ breakdown' = SelectSeq(breakdown, LAMBDA b : b.key # breakdown[i].key)
    /\ m_ret' = Outcome("caller", NoArg, Ok(None))
    /\ UNCHANGED <<collector, m_calls>>
    /\ MetricsFrame

NextBreakdown ==
    \/ Tick
    \/ \E result \in BOOLEAN, score \in CheckScores, engine_type \in Engines,
          duration_ms \in Durations, error \in BOOLEAN :
           RecordToxicityCheck(result, score, engine_type, duration_ms, FALSE, error)
    \/ ResetMetrics
    \/ GetHourlyBreakdown
    \/ \E i \in 1..MaxRecords : CallerAssigns(i)
    \/ \E i \in 1..MaxRecords : CallerDeletes(i)

SpecBreakdown == InitSummary /\ [][NextBreakdown]_vars

\* ------------------------------------------- MetricsCollector, two threads
\* Each thread makes calls of record_toxicity_check, reset_metrics,
\* get_summary and export_metrics('prometheus'); a step is a statement.
\* seen lists the collector as it was between complete operations: at the
\* start and whenever a recording or resetting thread leaves the lock.
PromNames ==
    <<"reflectpause_toxicity_checks_total", "reflectpause_toxic_detected_total",
      "reflectpause_toxicity_rate", "reflectpause_cache_hits_total",
      "reflectpause_cache_hit_rate", "reflectpause_engine_errors_total",
      "reflectpause_response_time_avg_ms", "reflectpause_response_time_p95_ms",
      "reflectpause_cache_speedup_factor">>

\* the k-th assignment of _to_prometheus_format, evaluated on the collector c
PromLine(k, c) == ToPrometheusFormat(c).value[PromNames[k]]

ConcMetricsFrame == UNCHANGED <<cacheVars, calls, ret, threadVars, accuracyVars, coreVars, breakdown, globals, now>>

At(t, pc, op) == task[t].pc = pc /\ task[t].op = op

Move(t, pc) == task' = [task EXCEPT ![t].pc = pc]

MCall(t, op, result, error) ==
    /\ task[t].pc = "idle"
    /\ m_calls < MaxConcCalls
    /\ m_calls' = m_calls + 1
    /\ task' = [task EXCEPT ![t] = [pc |-> "call", op |-> op, result |-> result,
                                    error |-> error, entry |-> collector,
                                    got |-> << >>]]
    /\ UNCHANGED <<collector, m_ret, holder, seen>>
    /\ ConcMetricsFrame

\* with self._lock: of record_toxicity_check, reset_metrics and get_summary
MLock(t) ==
    /\ task[t].pc = "call"
    /\ task[t].op \in {"record_toxicity_check", "reset_metrics", "get_summary"}
    /\ holder.collector = 0
    /\ holder' = [holder EXCEPT !.collector = t]
    /\ task' = [task EXCEPT ![t].pc = "locked", ![t].entry = collector]
    /\ UNCHANGED <<collector, m_calls, m_ret, seen>>
    /\ ConcMetricsFrame

\* self.toxicity_metrics.total_checks += 1
MCountTotal(t) ==
    /\ At(t, "locked", "record_toxicity_check")
    /\ collector' = [collector EXCEPT !.toxicity_metrics.total_checks = @ + 1]
    /\ Move(t, "counted")
    /\ UNCHANGED <<m_calls, m_ret, holder, seen>>
    /\ ConcMetricsFrame

\* if error: engine_errors += 1; return
MCountError(t) ==
    /\ At(t, "counted", "record_toxicity_check")
    /\ task[t].error
    /\ collector' = [collector EXCEPT !.toxicity_metrics.engine_errors = @ + 1]
    /\ Move(t, "unlock")
    /\ UNCHANGED <<m_calls, m_ret, holder, seen>>
    /\ ConcMetricsFrame

\* if result: toxic_detected += 1  else: non_toxic_detected += 1
MCountResult(t) ==
    /\ At(t, "counted", "record_toxicity_check")
    /\ ~task[t].error
    /\ collector' = [collector EXCEPT
          !.toxicity_metrics.toxic_detected = IF task[t].result THEN @ + 1 ELSE @,
          !.toxicity_metrics.non_toxic_detected = IF task[t].result THEN @ ELSE @ + 1]
    /\ Move(t, "result")
    /\ UNCHANGED <<m_calls, m_ret, holder, seen>>
    /\ ConcMetricsFrame

\* cache_misses += 1 (the checks of these threads are not cached), then the
\* samples, the engine's entry and the hourly bucket: the collector is now
\* what the whole call makes of the collector it found
MRecordRest(t) ==
    /\ At(t, "result", "record_toxicity_check")
    /\ collector' = RecordToxicityCheckOp(task[t].entry, task[t].result,
                                          CHOOSE score \in CheckScores : TRUE, "onnx",
                                          8, FALSE, FALSE, now)
    /\ Move(t, "unlock")
    /\ UNCHANGED <<m_calls, m_ret, holder, seen>>
    /\ ConcMetricsFrame

\* self.toxicity_metrics = ToxicityMetrics()
MResetCounters(t) ==
    /\ At(t, "locked", "reset_metrics")
    /\ collector' = [collector EXCEPT !.toxicity_metrics = ToxicityMetrics]
    /\ Move(t, "counters")
    /\ UNCHANGED <<m_calls, m_ret, holder, seen>>
    /\ ConcMetricsFrame

\* the other four assignments of reset_metrics
MResetRest(t) ==
    /\ At(t, "counters", "reset_metrics")
    /\ collector' = ResetMetricsOp(task[t].entry, now)
    /\ Move(t, "unlock")
    /\ UNCHANGED <<m_calls, m_ret, holder, seen>>
    /\ ConcMetricsFrame

\* the dict that get_summary builds under the lock
MSummary(t) ==
    /\ At(t, "locked", "get_summary")
    /\ task' = [task EXCEPT ![t].pc = "unlock", ![t].got = GetSummaryOp(collector, now)]
    /\ UNCHANGED <<collector, m_calls, m_ret, holder, seen>>
    /\ ConcMetricsFrame

\* the end of the with block and the return
MUnlock(t) ==
    /\ task[t].pc = "unlock"
    /\ holder.collector = t
    /\ holder' = [holder EXCEPT !.collector = 0]
    /\ seen' = IF task[t].op = "get_summary" THEN seen ELSE Append(seen, collector)
    /\ m_ret' = IF task[t].op = "get_summary"
                THEN Outcome("get_summary", NoArg, task[t].got)
                ELSE Outcome(task[t].op, NoArg, Ok(None))
    /\ task' = [task EXCEPT ![t] = IdleTask]
    /\ UNCHANGED <<collector, m_calls>>
    /\ ConcMetricsFrame

\* export_metrics('prometheus') runs _to_prometheus_format, which takes no
\* lock: one assignment of the dict it builds
MPromLine(t) ==
    /\ At(t, "call", "export_metrics")
    /\ Len(task[t].got) < Len(PromNames)
    /\ task' = [task EXCEPT ![t].got = Append(@, PromLine(Len(@) + 1, collector))]
    /\ UNCHANGED <<collector, m_calls, m_ret, holder, seen>>
    /\ ConcMetricsFrame

\* return metrics
MPromReturn(t) ==
    /\ At(t, "call", "export_metrics")
    /\ Len(task[t].got) = Len(PromNames)
    /\ m_ret' = Outcome("export_metrics", "prometheus", Ok(task[t].got))
    /\ task' = [task EXCEPT ![t] = IdleTask]
    /\ UNCHANGED <<collector, m_calls, holder, seen>>
    /\ ConcMetricsFrame

\* a new collector, seen once between operations
InitExport ==
    /\ IdleCache
    /\ IdleTracker
    /\ IdleCore
    /\ IdleCollector
    /\ now = 0
    /\ holder = NoLocks
    /\ task = [t \in Threads |-> IdleTask]
    /\ seen = <<collector>>
    /\ breakdown = << >>
    /\ globals = NoGlobals

NextExport ==
    \E t \in Threads :
        \/ \E result \in BOOLEAN, error \in BOOLEAN :
               MCall(t, "record_toxicity_check", result, error)
        \/ MCall(t, "reset_metrics", FALSE, FALSE)
        \/ MCall(t, "get_summary", FALSE, FALSE)
        \/ MCall(t, "export_metrics", FALSE, FALSE)
        \/ MLock(t)
        \/ MCountTotal(t)
        \/ MCountError(t)
        \/ MCountResult(t)
        \/ MRecordRest(t)
        \/ MResetCounters(t)
        \/ MResetRest(t)
        \/ MSummary(t)
        \/ MUnlock(t)
        \/ MPromLine(t)
        \/ MPromReturn(t)

SpecExport == InitExport /\ [][NextExport]_vars

\* ------------------------------------------- the module-level instances, two
\* ------------------------------------------- threads
\* get_global_cache, get_global_collector, get_global_tracker and the engine
\* of check are the same three statements, none of them under a lock:
\*     if _global_x is None:          (GlobalTest)
\*         _global_x = X()            (GlobalCreate)
\*     return _global_x               (GlobalReturn)
\* seen lists, call by call, the instance each caller received.
GlobalsFrame == UNCHANGED <<cacheVars, now, calls, ret, threadVars, metricsVars, accuracyVars, coreVars, holder, breakdown>>

AccessorCalls == Len(seen) + Cardinality({t \in Threads : task[t].pc # "idle"})

GlobalTest(t, k) ==
    /\ task[t].pc = "idle"
    /\ AccessorCalls < MaxAccessorCalls
    /\ task' = [task EXCEPT ![t] = [pc |-> IF globals.slot[k] = 0 THEN "create" ELSE "return", kind |-> k]]
    /\ UNCHANGED <<seen, globals>>
    /\ GlobalsFrame

GlobalCreate(t) ==
    /\ task[t].pc = "create"
    /\ LET k == task[t].kind
           id == globals.made[k] + 1
       IN  globals' = [slot |-> [globals.slot EXCEPT ![k] = id],
                       made |-> [globals.made EXCEPT ![k] = id]]
    /\ task' = [task EXCEPT ![t].pc = "return"]
    /\ UNCHANGED seen
    /\ GlobalsFrame

GlobalReturn(t) ==
    /\ task[t].pc = "return"
    /\ seen' = Append(seen, [thread |-> t, kind |-> task[t].kind, got |-> globals.slot[task[t].kind]])
    /\ task' = [task EXCEPT ![t] = IdleTask]
    /\ UNCHANGED globals
    /\ GlobalsFrame

InitGlobals ==
    /\ IdleCache
    /\ IdleCollector
    /\ IdleTracker
    /\ IdleCore
    /\ IdleProcs
    /\ now = 0

NextGlobals ==
    \/ \E t \in Threads, k \in Singletons : GlobalTest(t, k)
    \/ \E t \in Threads : GlobalCreate(t)
    \/ \E t \in Threads : GlobalReturn(t)

SpecGlobals == InitGlobals /\ [][NextGlobals]_vars

\* ---------------------------------------- MetricsCollector, a day of traffic
\* The collector after one successful check in each of the hours 0 .. n - 1.
RECURSIVE WarmCollector(_, _)
WarmCollector(cap, n) ==
    IF n = 0 THEN NewCollector(cap, 0, 0)
    ELSE RecordToxicityCheckOp(WarmCollector(cap, n - 1), TRUE,
                               CHOOSE score \in CheckScores : TRUE,
                               CHOOSE engine_type \in Engines : TRUE,
                               CHOOSE duration_ms \in Durations : TRUE,
                               FALSE, FALSE, n - 1)

\* The hourly map is full: one bucket for each of the last HourlyLimit hours.
InitHourly ==
    /\ IdleCache
    /\ IdleTracker
    /\ IdleCore
    /\ IdleProcs
    /\ now = HourlyLimit - 1
    /\ \E cap \in SampleCaps : collector = WarmCollector(cap, HourlyLimit)
    /\ m_calls = 0
    /\ m_ret = Outcome("none", NoArg, Ok(None))

TickHour ==
    /\ now < HourlyLimit - 1 + MaxTime
    /\ now' = now + 1
    /\ UNCHANGED <<cacheVars, calls, ret, threadVars, metricsVars, accuracyVars, coreVars, procVars>>

NextHourly ==
    \/ TickHour
    \/ \E result \in BOOLEAN, score \in CheckScores, engine_type \in Engines,
          duration_ms \in Durations, was_cached \in BOOLEAN, error \in BOOLEAN :
           RecordToxicityCheck(result, score, engine_type, duration_ms,
                               was_cached, error)

SpecHourly == InitHourly /\ [][NextHourly]_vars

\* ------------------------------------------- AccuracyTracker, one call at a
\* ------------------------------------------- time
OneText == {CHOOSE text \in Texts : TRUE}

OneEngine == {CHOOSE engine_type \in Engines : TRUE}

RECURSIVE SumCalls(_)
SumCalls(S) ==
    IF S = {} THEN 0
    ELSE LET e == CHOOSE e \in S : TRUE IN fb_calls[e] + SumCalls(S \ {e})

AccuracyFrame == UNCHANGED <<cacheVars, calls, ret, threadVars, metricsVars, coreVars, procVars, now>>

\* how a write of the storage file can end; without a file nothing is tried
Faults(file) == IF file = NoArg THEN {"ok"} ELSE {"ok", "open", "write"}

\* the _save_data that ends a call which leaves the tracker as tr
Persist(tr) ==
    \E fault \in Faults(storage_file) :
       /\ disk' = SaveData(tr, storage_file, disk, fault)
       /\ io' = IF storage_file = NoArg THEN << >> ELSE <<fault>>
       /\ UNCHANGED storage_file

\* a call that reads the tracker only
ReadOnly == io' = << >> /\ UNCHANGED <<tracker, fb_calls, storage_file, disk>>

RecordFeedback(text, predicted_toxic, actual_toxic, engine_type, confidence_score) ==
    /\ fb_calls' = [fb_calls EXCEPT ![engine_type] = @ + 1]
    /\ tracker' = RecordFeedbackOp(tracker, text, predicted_toxic, actual_toxic,
                                   engine_type, confidence_score, now)
    /\ a_ret' = Called("record_feedback",
                       <<text, predicted_toxic, actual_toxic, engine_type,
                         confidence_score>>, Ok(None))
    /\ Persist(tracker')
    /\ AccuracyFrame

GetAccuracyMetrics(engine_type) ==
    /\ a_ret' = Called("get_accuracy_metrics", <<engine_type>>,
                       GetAccuracyMetricsOp(tracker, engine_type))
    /\ ReadOnly
    /\ AccuracyFrame

GetFeedbackSummary(limit) ==
    /\ a_ret' = Called("get_feedback_summary", <<limit>>,
                       Ok(GetFeedbackSummaryOp(tracker, limit)))
    /\ ReadOnly
    /\ AccuracyFrame

ValidatePredictions(predictions) ==
    /\ a_ret' = Called("validate_predictions", <<predictions>>,
                       Ok(ValidatePredictionsOp(tracker, predictions)))
    /\ ReadOnly
    /\ AccuracyFrame

\* export_ground_truth: a copy of the table
ExportGroundTruth ==
    /\ a_ret' = Called("export_ground_truth", << >>, Ok(tracker.ground_truth))
    /\ ReadOnly
    /\ AccuracyFrame

ImportGroundTruth(ground_truth) ==
    LET r == ImportGroundTruthOp(tracker, ground_truth) IN
    /\ tracker' = r.tracker
    /\ a_ret' = Called("import_ground_truth", <<ground_truth>>, Ok(r.imported))
    /\ Persist(tracker')
    /\ UNCHANGED fb_calls
    /\ AccuracyFrame

ResetAccuracyData(engine_type) ==
    /\ tracker' = ResetAccuracyDataOp(tracker, engine_type)
    /\ a_ret' = Called("reset_accuracy_data", <<engine_type>>, Ok(None))
    /\ Persist(tracker')
    /\ UNCHANGED fb_calls
    /\ AccuracyFrame

\* AccuracyTracker(storage_file) on the file as it is: a new process
Construct ==
    /\ tracker' = LoadData(storage_file, disk)
    /\ a_ret' = Called("__init__", <<storage_file>>, Ok(None))
    /\ io' = << >>
    /\ UNCHANGED <<fb_calls, storage_file, disk>>
    /\ AccuracyFrame

InitAccuracy ==
    /\ IdleCache
    /\ IdleCollector
    /\ IdleTracker
    /\ IdleCore
    /\ IdleProcs
    /\ now = 0

\* Feedback without confidence scores, for both engines.
NextAccuracy ==
    \/ /\ SumCalls(Engines) < MaxFeedback
       /\ \E text \in OneText, predicted_toxic \in BOOLEAN, actual_toxic \in BOOLEAN,
             engine_type \in Engines :
              RecordFeedback(text, predicted_toxic, actual_toxic, engine_type, None)
    \/ \E engine_type \in Engines \cup {NoArg, ""} : GetAccuracyMetrics(engine_type)

SpecAccuracy == InitAccuracy /\ [][NextAccuracy]_vars

\* Feedback for one engine with every confidence score, or none.
NextConfidence ==
    /\ SumCalls(Engines) < MaxScored
    /\ \E text \in OneText, predicted_toxic \in BOOLEAN, actual_toxic \in BOOLEAN,
          engine_type \in OneEngine, confidence_score \in ConfidenceScores \cup {None} :
           RecordFeedback(text, predicted_toxic, actual_toxic, engine_type,
                          confidence_score)

SpecConfidence == InitAccuracy /\ [][NextConfidence]_vars

\* ------------------------------------------- AccuracyTracker, every call
\* ground-truth tables to import: text digests with labels, each digest once
GroundTruthMaps ==
    LET Labels == {<<text, is_toxic>> : text \in Texts, is_toxic \in BOOLEAN}
        entry(l) == [key |-> HashText(l[1]), is_toxic |-> l[2]]
    IN
    {<< >>} \cup {<<entry(l)>> : l \in Labels}
            \cup {<<entry(l), entry(m)>> : l \in {l \in Labels : l[1] = "a"},
                                          m \in {m \in Labels : m[1] = "b"}}

\* Feedback on texts that were flagged (predicted_toxic) for both engines,
\* and every other call of the tracker; no storage file.
NextTracker ==
    \/ /\ SumCalls(Engines) < MaxHistory
       /\ \E text \in Texts, actual_toxic \in BOOLEAN, engine_type \in Engines :
              RecordFeedback(text, TRUE, actual_toxic, engine_type, None)
    \/ \E limit \in 0..MaxLimit : GetFeedbackSummary(limit)
    \/ \E predictions \in PredictionLists : ValidatePredictions(predictions)
    \/ ExportGroundTruth
    \/ \E ground_truth \in GroundTruthMaps : ImportGroundTruth(ground_truth)
    \/ \E engine_type \in Engines \cup {NoArg} : ResetAccuracyData(engine_type)

SpecTracker == InitAccuracy /\ [][NextTracker]_vars

\* ------------------------------------------- AccuracyTracker, feedback of
\* ------------------------------------------- every kind
\* the confidence a feedback call passes: none, or a score
FeedbackConfidences == {None, 40}

\* labels that arrive by import: one for each text
ImportedLabels ==
    {<<[key |-> HashText("a"), is_toxic |-> TRUE]>>,
     <<[key |-> HashText("b"), is_toxic |-> FALSE]>>}

\* Feedback with each prediction, each label and each confidence on both
\* texts for both engines, between imports of ground truth.
NextFeedback ==
    \/ /\ SumCalls(Engines) < MaxAppends
       /\ \E text \in Texts, predicted_toxic \in BOOLEAN, actual_toxic \in BOOLEAN,
             engine_type \in Engines, confidence_score \in FeedbackConfidences :
              RecordFeedback(text, predicted_toxic, actual_toxic, engine_type,
                             confidence_score)
    \/ \E ground_truth \in ImportedLabels : ImportGroundTruth(ground_truth)

SpecFeedback == InitAccuracy /\ [][NextFeedback]_vars

\* ------------------------------------------- AccuracyTracker with a storage
\* ------------------------------------------- file
StorageFile == "accuracy.json"

\* What the file can hold when the tracker is constructed: nothing, text that
\* is not JSON, or an object whose 'engine_metrics' has an entry that is not
\* an object, first or after a good one.
FoundFiles ==
    LET good == [key |-> "onnx",
                 data |-> [true_positives |-> 1, true_negatives |-> 0,
                           false_positives |-> 0, false_negatives |-> 0]]
        bad == [key |-> "other", data |-> NotAnObject]
        saved == Snapshot(RecordFeedbackOp(NewTracker, "a", TRUE, TRUE, "onnx", None, 0))
    IN {NoFile, NotJson, saved,
        [saved EXCEPT !.engine_metrics = <<good, bad>>],
        [saved EXCEPT !.engine_metrics = <<bad, good>>]}

InitStorage ==
    /\ IdleCache
    /\ IdleCollector
    /\ IdleCore
    /\ IdleProcs
    /\ now = 0
    /\ storage_file = StorageFile
    /\ disk \in FoundFiles
    /\ tracker = LoadData(storage_file, disk)
    /\ fb_calls = [engine_type \in Engines |-> 0]
    /\ a_ret = Called("__init__", <<storage_file>>, Ok(None))
    /\ io = << >>

\* Feedback on one flagged text for both engines, imports of one label,
\* resets and new processes; every write of the file can fail.
NextStorage ==
    \/ /\ SumCalls(Engines) < MaxStored
       /\ \E text \in OneText, actual_toxic \in BOOLEAN, engine_type \in Engines :
              RecordFeedback(text, TRUE, actual_toxic, engine_type, None)
    \/ \E ground_truth \in {m \in GroundTruthMaps : Len(m) = 1 /\ m[1].is_toxic} :
          ImportGroundTruth(ground_truth)
    \/ \E engine_type \in Engines \cup {NoArg} : ResetAccuracyData(engine_type)
    \/ Construct

SpecStorage == InitStorage /\ [][NextStorage]_vars

\* ------------------------------------------- AccuracyTracker, two threads
\* ------------------------------------------- and a storage file
\* record_feedback, import_ground_truth and reset_accuracy_data statement by
\* statement.  Each runs inside 'with self._lock' and ends with _save_data
\* before the lock is released; every write of the file succeeds.  seen is
\* the log of the run: a "done" event with the tracker as it is when a call
\* releases the lock (and when the tracker is built), a "saved" event with
\* the object written each time _save_data writes the file.
ConcTrackerFrame == UNCHANGED <<cacheVars, now, calls, ret, threadVars, metricsVars, coreVars, fb_calls, storage_file, breakdown, globals>>

Done(tr) == [ev |-> "done", tracker |-> tr, snapshot |-> Snapshot(tr)]

Saved(d) == [ev |-> "saved", tracker |-> NewTracker, snapshot |-> d]

TrackerBegun == Cardinality({i \in DOMAIN seen : seen[i].ev = "done"}) - 1 + Cardinality({t \in Threads : task[t].pc # "idle"})

\* what the call of thread t makes of the tracker when it runs alone
Effect(t) ==
    LET a == task[t].args IN
    CASE task[t].op = "record_feedback" -> RecordFeedbackOp(tracker, a[1], a[2], a[3], a[4], a[5], now)
      [] task[t].op = "import_ground_truth" -> ImportGroundTruthOp(tracker, a[1]).tracker
      [] task[t].op = "reset_accuracy_data" -> ResetAccuracyDataOp(tracker, a[1])

TrackerEnter(t, op, args) ==
    /\ task[t].pc = "idle"
    /\ TrackerBegun < MaxTrackerCalls
    /\ task' = [task EXCEPT ![t] = [pc |-> "lock", op |-> op, args |-> args, imported |-> 0]]
    /\ UNCHANGED <<holder, seen, tracker, a_ret, disk, io>>
    /\ ConcTrackerFrame

\* variant: the call enters without waiting for the lock
TrackerLock_NoWait(t) ==
    /\ task[t].pc = "lock"
    /\ holder' = [holder EXCEPT !.tracker = t]
    /\ task' = [task EXCEPT ![t].pc = "first"]
    /\ UNCHANGED <<seen, tracker, a_ret, disk, io>>
    /\ ConcTrackerFrame

\* with self._lock: the thread waits until no other thread holds the lock
TrackerLock(t) ==
    /\ task[t].pc = "lock"
    /\ holder.tracker = 0
    /\ holder' = [holder EXCEPT !.tracker = t]
    /\ task' = [task EXCEPT ![t].pc = "first"]
    /\ UNCHANGED <<seen, tracker, a_ret, disk, io>>
    /\ ConcTrackerFrame

\* record_feedback: the engine's counter
RecordCount(t) ==
    /\ task[t].pc = "first" /\ task[t].op = "record_feedback"
    /\ tracker' = [tracker EXCEPT !.engine_metrics = Effect(t).engine_metrics]
    /\ task' = [task EXCEPT ![t].pc = "second"]
    /\ UNCHANGED <<holder, seen, a_ret, disk, io>>
    /\ ConcTrackerFrame

\* record_feedback: the feedback record
RecordHistory(t) ==
    /\ task[t].pc = "second" /\ task[t].op = "record_feedback"
    /\ tracker' = [tracker EXCEPT !.feedback_history = Effect(t).feedback_history]
    /\ task' = [task EXCEPT ![t].pc = "third"]
    /\ UNCHANGED <<holder, seen, a_ret, disk, io>>
    /\ ConcTrackerFrame

\* record_feedback: the ground truth and the confidence bucket
RecordTruth(t) ==
    /\ task[t].pc = "third" /\ task[t].op = "record_feedback"
    /\ tracker' = [tracker EXCEPT !.ground_truth = Effect(t).ground_truth,
                                  !.confidence_buckets = Effect(t).confidence_buckets]
    /\ task' = [task EXCEPT ![t].pc = "save"]
    /\ UNCHANGED <<holder, seen, a_ret, disk, io>>
    /\ ConcTrackerFrame

\* import_ground_truth: the loop over the entries
ImportLoop(t) ==
    /\ task[t].pc = "first" /\ task[t].op = "import_ground_truth"
    /\ tracker' = Effect(t)
    /\ task' = [task EXCEPT ![t].pc = "save",
                            ![t].imported = ImportGroundTruthOp(tracker, task[t].args[1]).imported]
    /\ UNCHANGED <<holder, seen, a_ret, disk, io>>
    /\ ConcTrackerFrame

\* reset_accuracy_data: the engine metrics
ResetEngineMetrics(t) ==
    /\ task[t].pc = "first" /\ task[t].op = "reset_accuracy_data"
    /\ tracker' = [tracker EXCEPT !.engine_metrics = Effect(t).engine_metrics]
    /\ task' = [task EXCEPT ![t].pc = "second"]
    /\ UNCHANGED <<holder, seen, a_ret, disk, io>>
    /\ ConcTrackerFrame

\* reset_accuracy_data: the feedback history and, in a full reset, the two
\* other tables
ResetTables(t) ==
    /\ task[t].pc = "second" /\ task[t].op = "reset_accuracy_data"
    /\ tracker' = [Effect(t) EXCEPT !.engine_metrics = tracker.engine_metrics]
    /\ task' = [task EXCEPT ![t].pc = "save"]
    /\ UNCHANGED <<holder, seen, a_ret, disk, io>>
    /\ ConcTrackerFrame

\* self._save_data(), the last statement inside the lock
TrackerSave(t) ==
    /\ task[t].pc = "save"
    /\ disk' = SaveData(tracker, storage_file, disk, "ok")
    /\ io' = <<"ok">>
    /\ seen' = Append(seen, Saved(disk'))
    /\ task' = [task EXCEPT ![t].pc = "unlock"]
    /\ UNCHANGED <<holder, tracker, a_ret>>
    /\ ConcTrackerFrame

\* the end of the with block and the return
TrackerUnlock(t) ==
    /\ task[t].pc = "unlock"
    /\ holder' = [holder EXCEPT !.tracker = 0]
    /\ seen' = Append(seen, Done(tracker))
    /\ a_ret' = Called(task[t].op, task[t].args,
                       Ok(IF task[t].op = "import_ground_truth" THEN task[t].imported ELSE None))
    /\ task' = [task EXCEPT ![t] = IdleTask]
    /\ UNCHANGED <<tracker, disk, io>>
    /\ ConcTrackerFrame

\* a new tracker on a storage file that does not exist yet
InitPersist ==
    /\ IdleCache
    /\ IdleCollector
    /\ IdleCore
    /\ now = 0
    /\ storage_file = StorageFile
    /\ disk = NoFile
    /\ tracker = LoadData(storage_file, disk)
    /\ fb_calls = [engine_type \in Engines |-> 0]
    /\ a_ret = Called("__init__", <<storage_file>>, Ok(None))
    /\ io = << >>
    /\ holder = NoLocks
    /\ task = [t \in Threads |-> IdleTask]
    /\ seen = <<Done(tracker)>>
    /\ breakdown = << >>
    /\ globals = NoGlobals

NextPersist ==
    \E t \in Threads :
       \/ \E actual_toxic \in BOOLEAN, engine_type \in Engines :
             TrackerEnter(t, "record_feedback", <<"a", TRUE, actual_toxic, engine_type, None>>)
       \/ \E ground_truth \in {m \in GroundTruthMaps : Len(m) = 1 /\ m[1].is_toxic} :
             TrackerEnter(t, "import_ground_truth", <<ground_truth>>)
       \/ \E engine_type \in Engines \cup {NoArg} :
             TrackerEnter(t, "reset_accuracy_data", <<engine_type>>)
       \/ TrackerLock(t)
       \/ RecordCount(t)
       \/ RecordHistory(t)
       \/ RecordTruth(t)
       \/ ImportLoop(t)
       \/ ResetEngineMetrics(t)
       \/ ResetTables(t)
       \/ TrackerSave(t)
       \/ TrackerUnlock(t)

SpecPersist == InitPersist /\ [][NextPersist]_vars

\* ------------------------------------------------------------------- check
\* the texts passed to check: two messages, the empty text and a blank
CheckTexts == Texts \cup {"", " "}

\* the forms of a call: the text alone, the text and a threshold outside
\* [0, 1], the text with the threshold 0.3 and always_prompt off, and the
\* text with always_prompt on, without a threshold and with one outside
\* [0, 1]; thresholds are in tenths
CheckArgs ==
    {<<text>> : text \in CheckTexts}
        \cup {<<text, threshold>> : text \in OneText, threshold \in {11, 0 - 2}}
        \cup {<<text, 3, FALSE>> : text \in OneText}
        \cup {<<text, None, TRUE>> : text \in OneText}
        \cup {<<text, 11, TRUE>> : text \in OneText}

\* the calls of the second thread, made beside those of the first
ConcurrentArgs == {<<text>> : text \in OneText}

\* what analyze returns: 0.3 or 0.9
EngineScores == {3, 9}

\* what the two readings of perf_counter give, in milliseconds
CheckDurations == {8}

Times(trace, name) == Len(SelectSeq(trace, LAMBDA call : call = name))

\* ---------------------------------------------- the settings, step by step
\* the sections and the updates passed to update_config: a text for a bool,
\* a field and a section that do not exist, a text for a bool of another
\* section, and an empty text for a bool followed by a text that is no int
ConfigUpdates ==
    {<<"toxicity", <<<<"always_prompt", PyStr("false")>>>>>>,
     <<"toxicity", <<<<"threshold", PyFloat(3)>>>>>>,
     <<"logging", <<<<"always_prompt", PyBool(TRUE)>>>>>>,
     <<"cache", <<<<"enabled", PyStr("yes")>>>>>>,
     <<"toxicity", <<<<"performance_monitoring", PyStr("")>>,
                     <<"max_text_length", PyStr("abc")>>>>>>}

\* the configuration file when it is read: missing, not JSON, a file with a
\* field that ToxicityConfig does not have, and a file with texts where
\* numbers are declared
ConfigFiles ==
    {ConfigFile(FALSE, FALSE, << >>),
     ConfigFile(TRUE, FALSE, << >>),
     ConfigFile(TRUE, TRUE, <<<<"toxicity", <<<<"bogus", PyInt(1)>>>>>>>>),
     ConfigFile(TRUE, TRUE,
                <<<<"toxicity", <<<<"default_threshold", PyStr("0.3")>>,
                                  <<"latency_warning_threshold_ms", PyStr("50")>>>>>>>>)}

\* the environment when a ConfigManager is constructed
Environments ==
    {<< >>,
     <<<<"REFLECTPAUSE_ALWAYS_PROMPT", "TRUE">>>>,
     <<<<"REFLECTPAUSE_THRESHOLD", "abc">>>>}

\* a thread is inside 'with self._lock' of a ConfigManager
InConfig(t) == task[t].pc = "apply"

CheckFrame == UNCHANGED <<max_size, ttl_seconds, now, calls, ret, threadVars, m_calls, m_ret, accuracyVars, seen, breakdown, globals>>

ConfigFrame == UNCHANGED <<cacheVars, collector, engine, c_calls, c_ret, holder>>

\* The ConfigManager a thread works on.  config is _global_config: empty for
\* None, else the manager it is bound to.  A thread that received the
\* manager holds a reference to it: own is empty while that manager is still
\* the global one, and holds the manager once _global_config has been bound
\* to another (get_global_config of two threads that both found None).
Manager(own) == IF own = << >> THEN config[1] ELSE own[1]

\* the thread makes the first of its pending assignments and goes on with
\* the rest, or leaves the lock when none is left or the conversion raises
StoreNext(t, own, writes) ==
    IF writes = << >>
    THEN /\ config' = config
         /\ task' = [task EXCEPT ![t] = IdleTask]
    ELSE LET r == Store(Manager(own), writes[1]) IN
         /\ config' = IF own = << >> THEN <<r.config>> ELSE config
         /\ task' = [task EXCEPT ![t] =
                        IF r.raised # "" \/ Len(writes) = 1 THEN IdleTask
                        ELSE [pc |-> "apply", op |-> "config",
                              writes |-> Tail(writes),
                              config |-> IF own = << >> THEN << >> ELSE <<r.config>>]]

\* update_config(section, updates) of the global manager: the lock, the two
\* tests that raise ValueError, and the first setattr
UpdateConfig(t, section, updates) ==
    /\ task[t].pc = "idle"
    /\ config # << >>
    /\ \A u \in Threads : ~InConfig(u)
    /\ IF Refuses(section, updates)
       THEN UNCHANGED <<config, task>>
       ELSE StoreNext(t, << >>, UpdateWrites(section, updates))
    /\ ConfigFrame
    /\ CheckFrame

\* load_config() of the global manager: the lock, the file and the first
\* setattr of _update_dataclass; a missing or unreadable file changes nothing
LoadConfig(t, config_data) ==
    /\ task[t].pc = "idle"
    /\ config # << >>
    /\ \A u \in Threads : ~InConfig(u)
    /\ IF config_data.found /\ config_data.parses
       THEN StoreNext(t, << >>, LoadWrites(config_data, 1))
       ELSE UNCHANGED <<config, task>>
    /\ ConfigFrame
    /\ CheckFrame

\* reload_global_config(): nothing when _global_config is None, else its
\* load_config()
ReloadGlobalConfig(t, config_data) ==
    IF config = << >>
    THEN /\ task[t].pc = "idle"
         /\ UNCHANGED <<config, task>>
         /\ ConfigFrame
         /\ CheckFrame
    ELSE LoadConfig(t, config_data)

\* the next assignment of the loop, inside the lock
ApplyUpdate(t) ==
    /\ InConfig(t)
    /\ StoreNext(t, task[t].config, task[t].writes)
    /\ ConfigFrame
    /\ CheckFrame

\* reset_to_defaults() of the global manager: the lock and the four
\* assignments, self.toxicity = ToxicityConfig() first
ResetToDefaults(t) ==
    /\ task[t].pc = "idle"
    /\ config # << >>
    /\ \A u \in Threads : ~InConfig(u)
    /\ StoreNext(t, << >>, [i \in DOMAIN Sections |->
                               Write("reset", Sections[i], NoArg, PyNone)])
    /\ ConfigFrame
    /\ CheckFrame

\* ------------------------------------------------------ check, step by step
\* A thread inside check: its position, its arguments, the manager it
\* received (config, empty while that is the global one), the settings it
\* has read, what the engine did, the clock it read for the expiry test of
\* cache.get (t1) and for cache.put (current_time), the result and the
\* duration it recorded, the calls it made, whether no other check ran
\* beside it and, while none did, the objects as they were when it began.
InCheck(t) == task[t].pc # "idle" /\ task[t].op = "check"

\* the thread has the manager that get_global_config returned
HasConfig(t) ==
    \/ InConfig(t)
    \/ InCheck(t) /\ task[t].pc \notin {"construct", "return"}

Before == [state |-> Self, collector |-> collector, engine |-> engine]

\* another check begins beside the call
Joined(call) == [call EXCEPT !.alone = FALSE, !.before = NoArg]

\* check returns or raises: what the caller sees of the call
Leave(t, call, raised, value) ==
    /\ c_ret' = [n |-> c_ret.n + 1, args |-> call.args, threshold |-> call.threshold,
                 fault |-> call.fault, raised |-> raised, value |-> value,
                 trace |-> call.trace, alone |-> call.alone]
    /\ task' = [task EXCEPT ![t] = IdleTask]

\* line 42 and the test of get_global_config (manager.py 330): the text is
\* refused, or the call goes on with the global manager, or it has to
\* construct one
CheckCall(t, args) ==
    LET call == [pc |-> IF config = << >> THEN "construct" ELSE "threshold",
                 op |-> "check", args |-> args, config |-> << >>,
                 threshold |-> PyNone, always_prompt |-> FALSE,
                 fault |-> "none", score |-> None, cached_score |-> None,
                 t1 |-> None, current_time |-> None, result |-> FALSE,
                 trace |-> << >>, alone |-> TRUE, before |-> Before]
        beside == \E u \in Threads : InCheck(u)
    IN
    /\ task[t].pc = "idle"
    /\ c_calls < MaxChecks
    /\ c_calls' = c_calls + 1
    /\ IF Rejects(args[1], 0)
       THEN Leave(t, [call EXCEPT !.alone = ~beside], "ValueError", None)
       ELSE /\ task' = [u \in Threads |->
                           IF u = t THEN (IF beside THEN Joined(call) ELSE call)
                           ELSE IF InCheck(u) THEN Joined(task[u])
                           ELSE task[u]]
            /\ c_ret' = c_ret
    /\ UNCHANGED <<cacheVars, collector, engine, config, holder>>
    /\ CheckFrame

\* manager.py 331: _global_config = ConfigManager(), built from the file and
\* the environment as they are now.  A thread that holds the manager bound
\* before keeps that one.
GetGlobalConfig(t, config_data, env) ==
    /\ InCheck(t)
    /\ task[t].pc = "construct"
    /\ config' = <<NewConfigManager(config_data, env)>>
    /\ task' = [u \in Threads |->
                   IF u = t THEN [task[t] EXCEPT !.pc = "return"]
                   ELSE IF HasConfig(u) /\ task[u].config = << >>
                   THEN [task[u] EXCEPT !.config = config]
                   ELSE task[u]]
    /\ UNCHANGED <<cacheVars, collector, engine, c_calls, c_ret, holder>>
    /\ CheckFrame

\* manager.py 332: return _global_config, the manager bound at this moment
GlobalConfigReturn(t) ==
    /\ InCheck(t)
    /\ task[t].pc = "return"
    /\ task' = [task EXCEPT ![t].pc = "threshold"]
    /\ UNCHANGED <<cacheVars, collector, engine, config, c_calls, c_ret, holder>>
    /\ CheckFrame

\* lines 49-50: the threshold given, or the default of the settings
CheckThreshold(t) ==
    /\ InCheck(t)
    /\ task[t].pc = "threshold"
    /\ task' = [task EXCEPT ![t] =
                   [@ EXCEPT !.pc = "settings",
                             !.threshold = ThresholdOf(task[t].args, Manager(task[t].config))]]
    /\ UNCHANGED <<cacheVars, collector, engine, config, c_calls, c_ret, holder>>
    /\ CheckFrame

\* lines 51-59: always_prompt, the test of the threshold, which raises
\* TypeError for a threshold that is not a number and ValueError for a
\* number outside [0, 1], and the answer when always_prompt is on
CheckSettings(t) ==
    LET call == [task[t] EXCEPT
                    !.always_prompt = AlwaysPromptOf(task[t].args, Manager(task[t].config))]
    IN
    /\ InCheck(t)
    /\ task[t].pc = "settings"
    /\ IF Incomparable(call.threshold)
       THEN Leave(t, call, "TypeError", None)
       ELSE IF Rejects(call.args[1], Tenths(call.threshold))
       THEN Leave(t, call, "ValueError", None)
       ELSE IF call.always_prompt
       THEN Leave(t, call, "", TRUE)
       ELSE /\ task' = [task EXCEPT ![t] = [call EXCEPT !.pc = "engine"]]
            /\ c_ret' = c_ret
    /\ UNCHANGED <<cacheVars, collector, engine, config, c_calls, holder>>
    /\ CheckFrame

\* line 65: if _toxicity_engine is None
CheckEngine(t) ==
    /\ InCheck(t)
    /\ task[t].pc = "engine"
    /\ task' = [task EXCEPT ![t].pc = IF engine = NoArg THEN "create" ELSE "get"]
    /\ UNCHANGED <<cacheVars, collector, engine, config, c_calls, c_ret, holder>>
    /\ CheckFrame

\* line 66: _toxicity_engine = ONNXEngine(), or the constructor raises
CheckCreate(t, fault) ==
    /\ InCheck(t)
    /\ task[t].pc = "create"
    /\ task' = [task EXCEPT ![t] =
                   [@ EXCEPT !.pc = IF fault = "create" THEN "record" ELSE "get",
                             !.fault = fault,
                             !.trace = Append(@, "ONNXEngine")]]
    /\ engine' = IF fault = "create" THEN engine ELSE "onnx"
    /\ UNCHANGED <<cacheVars, collector, config, c_calls, c_ret, holder>>
    /\ CheckFrame

\* where check goes on with what cache.get returned
AfterGet(call, cached_score) ==
    [call EXCEPT !.cached_score = cached_score,
                 !.trace = Append(@, "get"),
                 !.pc = IF IsHit(cached_score) THEN "record" ELSE "analyze"]

\* line 70, cache.get to the expiry test: the lock, the lookup and, for an
\* entry that is there, the clock of _is_expired; a key that is missing or
\* expired is counted, the lock released and None returned
CheckGet(t) ==
    LET text == task[t].args[1]
        k == GenerateKey(text, "onnx")
        present == HasKey(cache, k)
        got == GetOp(Self, text, "onnx", now, now)
    IN
    /\ InCheck(t)
    /\ task[t].pc = "get"
    /\ holder.cache = 0
    /\ IF present /\ ~IsExpired(Lookup(cache, k), now)
       THEN /\ holder' = [holder EXCEPT !.cache = t]
            /\ task' = [task EXCEPT ![t] = [@ EXCEPT !.pc = "touch", !.t1 = now]]
            /\ UNCHANGED cacheVars
       ELSE /\ Apply(got)
            /\ task' = [task EXCEPT ![t] = AfterGet(@, got.ret)]
            /\ UNCHANGED <<max_size, ttl_seconds, holder>>
    /\ UNCHANGED <<collector, engine, config, c_calls, c_ret>>
    /\ UNCHANGED <<now, calls, ret, threadVars, m_calls, m_ret, accuracyVars, seen, breakdown, globals>>

\* cache.get on a hit: the clock of the access time, the counters, the
\* release of the lock and the score
CheckTouch(t) ==
    LET got == GetOp(Self, task[t].args[1], "onnx", task[t].t1, now) IN
    /\ InCheck(t)
    /\ task[t].pc = "touch"
    /\ Apply(got)
    /\ holder' = [holder EXCEPT !.cache = 0]
    /\ task' = [task EXCEPT ![t] = AfterGet([@ EXCEPT !.t1 = None], got.ret)]
    /\ UNCHANGED <<max_size, ttl_seconds, collector, engine, config, c_calls, c_ret>>
    /\ UNCHANGED <<now, calls, ret, threadVars, m_calls, m_ret, accuracyVars, seen, breakdown, globals>>

\* line 79: engine.analyze(text) returns its score or raises; no lock is held
CheckAnalyze(t, fault, score) ==
    /\ InCheck(t)
    /\ task[t].pc = "analyze"
    /\ task' = [task EXCEPT ![t] =
                   [@ EXCEPT !.pc = IF fault = "analyze" THEN "record" ELSE "put_time",
                             !.fault = fault,
                             !.score = IF fault = "analyze" THEN None ELSE score,
                             !.trace = Append(@, "analyze")]]
    /\ IF fault = "analyze"
       THEN Apply([state |-> FailedAnalysis(Self, task[t].args[1], "onnx", now)])
       ELSE UNCHANGED <<cache, access_times, stats>>
    /\ UNCHANGED <<max_size, ttl_seconds, collector, engine, config, c_calls, c_ret, holder>>
    /\ CheckFrame

\* line 81, cache.put before its lock: current_time = time.time()
CheckPutTime(t) ==
    /\ InCheck(t)
    /\ task[t].pc = "put_time"
    /\ task' = [task EXCEPT ![t] =
                   [@ EXCEPT !.pc = "put", !.current_time = now]]
    /\ UNCHANGED <<cacheVars, collector, engine, config, c_calls, c_ret, holder>>
    /\ CheckFrame

\* cache.put inside its lock: the eviction and the entry
CheckPut(t) ==
    /\ InCheck(t)
    /\ task[t].pc = "put"
    /\ holder.cache = 0
    /\ Apply(PutOp(Self, task[t].args[1], "onnx", task[t].score, task[t].current_time))
    /\ task' = [task EXCEPT ![t] = [@ EXCEPT !.pc = "record", !.current_time = None,
                                                !.trace = Append(@, "put")]]
    /\ UNCHANGED <<max_size, ttl_seconds, collector, engine, config, c_calls, c_ret, holder>>
    /\ CheckFrame

\* lines 85-97 and 105-124: record_toxicity_check inside the collector's
\* lock.  A check that has its score records the result, with the clock of
\* the hour, and goes on to line 100; a check in which something raised
\* records the error and raises RuntimeError.
CheckRecord(t, duration_ms) ==
    LET failed == task[t].fault # "none"
        was_cached == IsHit(task[t].cached_score)
        toxicity_score == IF was_cached THEN task[t].cached_score ELSE task[t].score
        result == ExceedsThreshold(toxicity_score, Tenths(task[t].threshold))
        engine_type == IF engine = NoArg THEN "unknown" ELSE "onnx"
        call == [task[t] EXCEPT !.trace = Append(@, "record_toxicity_check")]
    IN
    /\ InCheck(t)
    /\ task[t].pc = "record"
    /\ holder.collector = 0
    /\ collector' =
           IF failed
           THEN RecordToxicityCheckOp(collector, FALSE, 0, engine_type, duration_ms,
                                      FALSE, TRUE, now)
           ELSE RecordToxicityCheckOp(collector, result, toxicity_score, "onnx",
                                      duration_ms, was_cached, FALSE, now)
    /\ IF failed THEN Leave(t, call, "RuntimeError", None)
       ELSE /\ task' = [task EXCEPT ![t] = [call EXCEPT !.pc = "monitor", !.result = result]]
            /\ c_ret' = c_ret
    /\ UNCHANGED <<cacheVars, engine, config, c_calls, holder>>
    /\ CheckFrame

\* line 100, the left side of the 'and': with performance_monitoring off
\* check returns its result (103)
CheckMonitor(t) ==
    /\ InCheck(t)
    /\ task[t].pc = "monitor"
    /\ IF Truthy(Manager(task[t].config).toxicity.performance_monitoring)
       THEN /\ task' = [task EXCEPT ![t].pc = "latency"]
            /\ c_ret' = c_ret
       ELSE Leave(t, task[t], "", task[t].result)
    /\ UNCHANGED <<cacheVars, collector, engine, config, c_calls, holder>>
    /\ CheckFrame

\* line 100, the right side: duration_ms > latency_warning_threshold_ms.
\* With a number check warns or not and returns its result (103); with any
\* other value the comparison raises TypeError inside the try, and check
\* goes to the except clause of line 105.
CheckLatency(t) ==
    /\ InCheck(t)
    /\ task[t].pc = "latency"
    /\ IF Incomparable(Manager(task[t].config).toxicity.latency_warning_threshold_ms)
       THEN /\ task' = [task EXCEPT ![t] = [@ EXCEPT !.pc = "record", !.fault = "monitor"]]
            /\ c_ret' = c_ret
       ELSE Leave(t, task[t], "", task[t].result)
    /\ UNCHANGED <<cacheVars, collector, engine, config, c_calls, holder>>
    /\ CheckFrame

\* The module as imported: no ConfigManager and no engine exist, the
\* collector is as constructed, and the global cache holds one entry and
\* keeps it until the clock moves on, so that one tick separates a check
\* within the TTL from a check after it.  The first thread calls check in
\* all its forms; the second calls it beside the first and changes the
\* settings.
InitCheck ==
    /\ lock = 0
    /\ th = [t \in Threads |-> IdleThread]
    /\ lin = [cache |-> << >>, access_times |-> << >>,
              stats |-> [hits |-> 0, misses |-> 0, evictions |-> 0, expired |-> 0]]
    /\ max_size = 1
    /\ ttl_seconds = 0
    /\ cache = << >>
    /\ access_times = << >>
    /\ stats = [hits |-> 0, misses |-> 0, evictions |-> 0, expired |-> 0]
    /\ calls = 0
    /\ ret = None
    /\ IdleTracker
    /\ IdleProcs
    /\ now = 0
    /\ collector = NewCollector(DefaultMaxSamples, 0, 0)
    /\ m_calls = 0
    /\ m_ret = Outcome("none", NoArg, Ok(None))
    /\ engine = NoArg
    /\ config = << >>
    /\ c_calls = 0
    /\ c_ret = NoCheck

NextCheck ==
    \/ now < MaxCheckTime /\ Tick
    \/ \E args \in CheckArgs : CheckCall(1, args)
    \/ \E args \in ConcurrentArgs : CheckCall(2, args)
    \/ \E call \in ConfigUpdates : UpdateConfig(2, call[1], call[2])
    \/ \E config_data \in ConfigFiles : LoadConfig(2, config_data)
    \/ \E config_data \in ConfigFiles : ReloadGlobalConfig(2, config_data)
    \/ ResetToDefaults(2)
    \/ \E t \in Threads :
          \/ \E config_data \in ConfigFiles, env \in Environments :
                GetGlobalConfig(t, config_data, env)
          \/ GlobalConfigReturn(t)
          \/ CheckThreshold(t)
          \/ CheckSettings(t)
          \/ CheckEngine(t)
          \/ \E fault \in {"none", "create"} : CheckCreate(t, fault)
          \/ CheckGet(t)
          \/ CheckTouch(t)
          \/ \E score \in EngineScores : CheckAnalyze(t, "none", score)
          \/ CheckAnalyze(t, "analyze", None)
          \/ CheckPutTime(t)
          \/ CheckPut(t)
          \/ \E duration_ms \in CheckDurations : CheckRecord(t, duration_ms)
          \/ CheckMonitor(t)
          \/ CheckLatency(t)
          \/ ApplyUpdate(t)

SpecCheck == InitCheck /\ [][NextCheck]_vars

\* ------------------------------------------- check beside other callers of
\* ------------------------------------------- the cache and the collector
\* Two callers.  A caller runs check (core.py) or check_async
\* (async_core.py), or calls the cache (get, put, get_stats) or the collector
\* (get_summary, record_toxicity_check) directly.  Every call of a component
\* takes the component's lock, runs and releases it on return.  check makes
\* its calls one after the other: cache.get, then on a miss engine.analyze
\* and cache.put, then record_toxicity_check.  check calls analyze on its own
\* thread (core.py 79); check_async hands it to a thread of the default
\* executor and awaits the result (async_core.py 85-86), so its analyze runs
\* on that thread while the coroutine is suspended.  seen is the log: one
\* event when a call starts, one when a component call has returned, and one
\* each for the begin and the end of analyze, with the thread it runs on.
CoreFrame == UNCHANGED <<max_size, ttl_seconds, now, calls, ret, threadVars, m_calls, accuracyVars, config, c_calls, c_ret, breakdown, globals>>

CacheCalls == {"get", "put", "get_stats"}

CollectorCalls == {"get_summary", "record_toxicity_check"}

Checks == {"check", "check_async"}

LockOf(call) == IF call \in CacheCalls THEN "cache" ELSE "collector"

Event(t, ev, direct) == [thread |-> t, ev |-> ev, direct |-> direct]

\* the thread of the executor that runs the analyze of caller t's check_async
Executor(t) == t + Cardinality(Threads)

\* the thread on which the analyze of the check of caller t runs
Runner(t) == IF task[t].op = "check_async" THEN Executor(t) ELSE t

CoreBegun == Cardinality({i \in DOMAIN seen : seen[i].ev = "call"})

\* a caller starts check(text), check_async(text) or a call of a component;
\* check binds _toxicity_engine (core.py 64-66), check_async its own
\* _async_toxicity_engine (async_core.py 68-71)
CoreCall(t, op, text, score) ==
    /\ task[t].pc = "idle"
    /\ CoreBegun < MaxCoreCalls
    /\ task' = [task EXCEPT ![t] =
                   [pc |-> "lock", op |-> op,
                    call |-> IF op \in Checks THEN "get" ELSE op,
                    text |-> text, score |-> score, was_cached |-> FALSE]]
    /\ engine' = IF op = "check" THEN "onnx" ELSE engine
    /\ seen' = Append(seen, Event(t, "call", op \notin Checks))
    /\ UNCHANGED <<cache, access_times, stats, collector, m_ret, holder>>
    /\ CoreFrame

\* with self._lock of the component that is called
CoreLock(t) ==
    /\ task[t].pc = "lock"
    /\ holder[LockOf(task[t].call)] = 0
    /\ holder' = [holder EXCEPT ![LockOf(task[t].call)] = t]
    /\ task' = [task EXCEPT ![t].pc = "body"]
    /\ UNCHANGED <<cache, access_times, stats, collector, m_ret, engine, seen>>
    /\ CoreFrame

\* variant: check keeps the cache's lock from cache.get until after analyze
Released_AfterAnalyze(t) ==
    IF task[t].op \in Checks /\ task[t].call = "get" THEN holder
    ELSE [holder EXCEPT ![LockOf(task[t].call)] = 0]

\* the locks when the component call of caller t returns
Released(t) == [holder EXCEPT ![LockOf(task[t].call)] = 0]

\* where check goes on after a component call, or idle for a direct call
After(t, call, cached_score) ==
    IF task[t].op \notin Checks THEN IdleTask
    ELSE CASE call = "get" /\ IsHit(cached_score) ->
                  [task[t] EXCEPT !.pc = "lock", !.call = "record_toxicity_check",
                                  !.score = cached_score, !.was_cached = TRUE]
           [] call = "get" /\ ~IsHit(cached_score) -> [task[t] EXCEPT !.pc = "analyze"]
           [] call = "put" -> [task[t] EXCEPT !.pc = "lock", !.call = "record_toxicity_check"]
           [] call = "record_toxicity_check" -> IdleTask

\* the body of the component call, the release of the lock and the return
CoreBody(t) ==
    LET call == task[t].call
        got == GetOp(Self, task[t].text, "onnx", now, now)
    IN
    /\ task[t].pc = "body"
    /\ CASE call = "get" -> Apply(got)
         [] call = "put" -> Apply(PutOp(Self, task[t].text, "onnx", task[t].score, now))
         [] OTHER -> UNCHANGED <<cache, access_times, stats>>
    /\ collector' = IF call = "record_toxicity_check"
                    THEN RecordToxicityCheckOp(collector,
                             ExceedsThreshold(task[t].score, DefaultThreshold),
                             task[t].score, "onnx", 8, task[t].was_cached, FALSE, now)
                    ELSE collector
    /\ m_ret' = IF call = "get_summary"
                THEN Outcome("get_summary", NoArg, GetSummaryOp(collector, now))
                ELSE m_ret
    /\ holder' = Released(t)
    /\ task' = [task EXCEPT ![t] = After(t, call, got.ret)]
    /\ seen' = Append(seen, Event(t, call, task[t].op \notin Checks))
    /\ UNCHANGED engine
    /\ CoreFrame

\* engine.analyze(text) is entered: by check on the caller's thread, by
\* check_async on a thread of the executor
AnalyzeBegin(t) ==
    /\ task[t].pc = "analyze"
    /\ task' = [task EXCEPT ![t].pc = "analyzing"]
    /\ seen' = Append(seen, Event(Runner(t), "analyze_begin", FALSE))
    /\ UNCHANGED <<cache, access_times, stats, collector, m_ret, engine, holder>>
    /\ CoreFrame

\* engine.analyze(text) returns its score
AnalyzeReturn(t, score) ==
    /\ task[t].pc = "analyzing"
    /\ task' = [task EXCEPT ![t] = [@ EXCEPT !.pc = "lock", !.call = "put", !.score = score]]
    /\ seen' = Append(seen, Event(Runner(t), "analyze_end", FALSE))
    /\ UNCHANGED <<cache, access_times, stats, collector, m_ret, engine, holder>>
    /\ CoreFrame

InitCore ==
    /\ IdleCache
    /\ IdleCollector
    /\ IdleTracker
    /\ IdleCore
    /\ IdleProcs
    /\ now = 0

NextCore ==
    \E t \in Threads :
       \/ \E text \in OneText : CoreCall(t, "check", text, None)
       \/ \E text \in OneText : CoreCall(t, "check_async", text, None)
       \/ \E text \in OneText : CoreCall(t, "put", text, 9)
       \/ \E text \in OneText : CoreCall(t, "get", text, None)
       \/ CoreCall(t, "get_stats", NoArg, None)
       \/ CoreCall(t, "get_summary", NoArg, None)
       \/ CoreCall(t, "record_toxicity_check", NoArg, 3)
       \/ CoreLock(t)
       \/ CoreBody(t)
       \/ AnalyzeBegin(t)
       \/ \E score \in EngineScores : AnalyzeReturn(t, score)

SpecCore == InitCore /\ [][NextCore]_vars

\* --------------------------------------------------- the rates, on any counts
\* One of the three objects holds arbitrary counts, the others are as
\* constructed; the reads compute the rates.
Counts == 0..MaxCount

InitRates ==
    /\ now = 0
    /\ IdleCore
    /\ IdleProcs
    /\ \/ /\ \E hits \in Counts, misses \in Counts :
               CacheWithStats([hits |-> hits, misses |-> misses,
                               evictions |-> 0, expired |-> 0])
          /\ IdleCollector
          /\ IdleTracker
       \/ /\ IdleCache
          /\ \E m \in [total_checks : Counts, toxic_detected : Counts,
                       non_toxic_detected : Counts, cache_hits : Counts,
                       cache_misses : Counts, engine_errors : Counts] :
               collector = [NewCollector(CHOOSE cap \in SampleCaps : TRUE, 0, 0)
                               EXCEPT !.toxicity_metrics = m]
          /\ m_calls = 0
          /\ m_ret = Outcome("none", NoArg, Ok(None))
          /\ IdleTracker
       \/ /\ IdleCache
          /\ IdleCollector
          /\ \E engine_type \in Engines,
                m \in [true_positives : Counts, true_negatives : Counts,
                       false_positives : Counts, false_negatives : Counts] :
               tracker = [NewTracker EXCEPT !.engine_metrics =
                             <<[key |-> engine_type, metrics |-> m]>>]
          /\ fb_calls = [engine_type \in Engines |-> 0]
          /\ a_ret = Called("none", << >>, Ok(None))
          /\ storage_file = NoArg
          /\ disk = NoFile
          /\ io = << >>

NextRates ==
    \/ GetStats
    \/ GetSummary
    \/ \E engine_type \in Engines \cup {NoArg, ""} : GetAccuracyMetrics(engine_type)

SpecRates == InitRates /\ [][NextRates]_vars

\* ------------------------------------------------- claims: MetricsCollector
\* A step that is the call record_toxicity_check with these arguments.
RecordStep(result, score, engine_type, duration_ms, was_cached, error) ==
    /\ m_calls' = m_calls + 1
    /\ m_ret'.op = "record_toxicity_check"
    /\ collector'.toxicity_metrics =
           Counted(collector.toxicity_metrics, result, was_cached, error)
    /\ RecordToxicityCheck(result, score, engine_type, duration_ms, was_cached, error)

\* the collector has handled exactly one call, a successful check that was
\* toxic and not cached
OneToxicMiss ==
    /\ m_calls = 1
    /\ m_ret.op = "record_toxicity_check"
    /\ collector.toxicity_metrics =
           [ToxicityMetrics EXCEPT !.total_checks = 1, !.toxic_detected = 1,
                                   !.cache_misses = 1]

\* C11: a record_toxicity_check without error adds 1 to total_checks, 1 to
\* toxic_detected or to non_toxic_detected according to result, 1 to cache_hits
\* or to cache_misses according to was_cached, and leaves engine_errors; after
\* (result=True, was_cached=False) then (result=False, was_cached=True) on a new
\* collector the summary shows total_checks 2, toxic_detected 1, cache_hits 1,
\* cache_misses 1 and toxicity_rate 50.0 (the summary of a cached check that
\* took more than 0 ms; what get_summary does after 0 ms is the subject of C37).
C11_SuccessfulCheck ==
    [][\A result \in BOOLEAN, score \in CheckScores, engine_type \in Engines,
          duration_ms \in Durations, was_cached \in BOOLEAN :
         RecordStep(result, score, engine_type, duration_ms, was_cached, FALSE)
         => LET m == collector.toxicity_metrics
                n == collector'.toxicity_metrics
            IN /\ n.total_checks = m.total_checks + 1
               /\ n.toxic_detected = m.toxic_detected + (IF result THEN 1 ELSE 0)
               /\ n.non_toxic_detected = m.non_toxic_detected + (IF result THEN 0 ELSE 1)
               /\ n.cache_hits = m.cache_hits + (IF was_cached THEN 1 ELSE 0)
               /\ n.cache_misses = m.cache_misses + (IF was_cached THEN 0 ELSE 1)
               /\ n.engine_errors = m.engine_errors
               /\ (OneToxicMiss /\ ~result /\ was_cached /\ duration_ms > 0)
                  => LET summary == GetSummaryOp(collector', now') IN
                     /\ summary.raised = ""
                     /\ summary.value.toxicity.total_checks = 2
                     /\ summary.value.toxicity.toxic_detected = 1
                     /\ summary.value.toxicity.cache_hits = 1
                     /\ summary.value.toxicity.cache_misses = 1
                     /\ summary.value.toxicity.toxicity_rate = Float(50)
      ]_vars

\* C11 witness: the two calls of the example have been recorded and the
\* summary reports a toxicity rate of 50.0.
C11_Witness ==
    /\ m_calls = 2
    /\ m_ret.op = "record_toxicity_check"
    /\ collector.toxicity_metrics =
           [ToxicityMetrics EXCEPT !.total_checks = 2, !.toxic_detected = 1,
                                   !.non_toxic_detected = 1,
                                   !.cache_hits = 1, !.cache_misses = 1]
    /\ Len(collector.performance_metrics.cached_response_times) = 1
    /\ GetSummaryOp(collector, now).raised = ""
    /\ GetSummaryOp(collector, now).value.toxicity.toxicity_rate = Float(50)

\* C12: a record_toxicity_check with error set adds 1 to total_checks and 1 to
\* engine_errors and changes nothing else of the collector (the other
\* counters, the three latency series, the per-engine metrics, the hourly
\* buckets), whatever result, was_cached and duration_ms are.
C12_FailedCheck ==
    [][\A result \in BOOLEAN, score \in CheckScores, engine_type \in Engines,
          duration_ms \in Durations, was_cached \in BOOLEAN :
         RecordStep(result, score, engine_type, duration_ms, was_cached, TRUE)
         => collector' =
                [collector EXCEPT !.toxicity_metrics.total_checks = @ + 1,
                                  !.toxicity_metrics.engine_errors = @ + 1]
      ]_vars

\* C12 witness: a failed check recorded after a successful one; the series,
\* the engine metrics and the hourly bucket still hold the one successful check.
C12_Witness ==
    /\ m_ret.op = "record_toxicity_check"
    /\ collector.toxicity_metrics.total_checks = 2
    /\ collector.toxicity_metrics.engine_errors = 1
    /\ Len(collector.performance_metrics.response_times) = 1
    /\ Len(collector.engine_stats) = 1
    /\ collector.engine_stats[1].metrics.total_checks = 1
    /\ Len(collector.hourly_stats) = 1
    /\ collector.hourly_stats[1].total_checks = 1

\* the most recent min(Len(xs), n) entries of xs, in arrival order
MostRecent(xs, n) ==
    IF Len(xs) <= n THEN xs ELSE SubSeq(xs, Len(xs) - n + 1, Len(xs))

\* C13: after every record_toxicity_check each of the three latency series
\* holds at most max_samples entries, and holds exactly the most recent
\* min(k, max_samples) of the k samples appended to it since the last reset,
\* in arrival order: a successful check leaves each series as the most recent
\* max_samples entries of the series with the new sample appended to the
\* overall series and to the sub-series that was_cached selects.
C13_LatencySampleCap ==
    [][\A result \in BOOLEAN, score \in CheckScores, engine_type \in Engines,
          duration_ms \in Durations, was_cached \in BOOLEAN :
         RecordStep(result, score, engine_type, duration_ms, was_cached, FALSE)
         => LET p == collector.performance_metrics
                q == collector'.performance_metrics
                cap == collector.max_samples
            IN /\ Len(q.response_times) <= cap
               /\ Len(q.cached_response_times) <= cap
               /\ Len(q.analyzed_response_times) <= cap
               /\ q.response_times =
                      MostRecent(Append(p.response_times, duration_ms), cap)
               /\ q.cached_response_times =
                      MostRecent(IF was_cached
                                 THEN Append(p.cached_response_times, duration_ms)
                                 ELSE p.cached_response_times, cap)
               /\ q.analyzed_response_times =
                      MostRecent(IF was_cached
                                 THEN p.analyzed_response_times
                                 ELSE Append(p.analyzed_response_times, duration_ms), cap)
      ]_vars

\* the hour that a bucket key names, counted from hour 0 of day 01
KeyHour(k) == (k[1] * 10 + k[2] - 1) * 24 + k[4] * 10 + k[5]

\* the keys of S that name the n most recent hours
MostRecentHours(S, n) ==
    {k \in S : Cardinality({o \in S : KeyHour(o) > KeyHour(k)}) < n}

\* C14: after every record_toxicity_check the hourly map holds at most 24
\* buckets, keyed by the UTC hour of the checks; a check that creates a bucket
\* for a 25th distinct hour removes exactly one bucket, the chronologically
\* oldest; any other check removes none; so the map holds the 24 most recent
\* hours that received checks.
C14_HourlyRetention ==
    [][\A result \in BOOLEAN, score \in CheckScores, engine_type \in Engines,
          duration_ms \in Durations, was_cached \in BOOLEAN :
         RecordStep(result, score, engine_type, duration_ms, was_cached, FALSE)
         => LET before == Keys(collector.hourly_stats)
                after == Keys(collector'.hourly_stats)
                hour_key == HourKey(now)
            IN /\ KeyHour(hour_key) = now
               /\ Len(collector'.hourly_stats) <= HourlyLimit
               /\ Unique(collector'.hourly_stats)
               /\ hour_key \in after
               /\ after = MostRecentHours(before \cup {hour_key}, HourlyLimit)
               /\ IF hour_key \notin before /\ Cardinality(before) = HourlyLimit
                  THEN \E oldest \in before :
                          /\ \A o \in before : KeyHour(oldest) <= KeyHour(o)
                          /\ after = (before \ {oldest}) \cup {hour_key}
                  ELSE after = before \cup {hour_key}
      ]_vars

\* C14 witness: a check in hour 24 created the 25th bucket; the bucket of
\* hour 0 is gone, the buckets of hours 1 to 24 are held.
C14_Witness ==
    /\ m_ret.op = "record_toxicity_check"
    /\ Len(collector.hourly_stats) = HourlyLimit
    /\ ~HasKey(collector.hourly_stats, HourKey(0))
    /\ \A t \in 1..HourlyLimit : HasKey(collector.hourly_stats, HourKey(t))

\* A step that is the call reset_metrics.
ResetStep ==
    /\ m_calls' = m_calls + 1
    /\ m_ret'.op = "reset_metrics"
    /\ ResetMetrics

\* C15: reset_metrics sets every global counter to 0, empties the three latency
\* series, the per-engine metrics and the hourly buckets and sets last_reset to
\* the time of the call; session_start keeps its value (no call changes it);
\* the summary taken right after the reset is that of the collector as
\* constructed, except for last_reset and uptime.
C15_ResetMetrics ==
    [][/\ collector'.session_start = collector.session_start
       /\ ResetStep
          => LET fresh == NewCollector(collector.max_samples,
                                       collector.session_start,
                                       collector.session_start)
                 was == GetSummaryOp(fresh, collector.session_start)
                 is == GetSummaryOp(collector', now')
             IN /\ collector'.toxicity_metrics = ToxicityMetrics
                /\ collector'.performance_metrics = PerformanceMetrics
                /\ collector'.engine_stats = << >>
                /\ collector'.hourly_stats = << >>
                /\ collector'.last_reset = now
                /\ collector'.max_samples = collector.max_samples
                /\ was.raised = ""
                /\ is.raised = ""
                /\ is.value.toxicity = was.value.toxicity
                /\ is.value.performance = was.value.performance
                /\ is.value.engines = was.value.engines
                /\ is.value.session.start_time = was.value.session.start_time
      ]_vars

\* C15 witness: a reset made after a check and after the clock has moved; the
\* collector is empty, last_reset is later than session_start.
C15_Witness ==
    /\ m_calls = 2
    /\ m_ret.op = "reset_metrics"
    /\ collector.toxicity_metrics.total_checks = 0
    /\ collector.hourly_stats = << >>
    /\ collector.last_reset = now
    /\ collector.last_reset > collector.session_start

\* A step that is the call export_metrics(format).
ExportStep(format) ==
    /\ m_calls' = m_calls + 1
    /\ m_ret'.op = "export_metrics"
    /\ m_ret'.format = format
    /\ ExportMetrics(format)

\* C16: export_metrics('dict') hands back what get_summary hands back at the
\* same moment; export_metrics('prometheus') hands back the flat form, nine
\* keys whose values are the counters and figures as text; any other format
\* raises ValueError with no output; no export changes the collector.  (When
\* the snapshot itself cannot be computed, both 'dict' and get_summary raise
\* the same error, and so does 'prometheus': C37.)
C16_ExportMetrics ==
    [][\A format \in Formats :
         ExportStep(format)
         => /\ collector' = collector
            /\ format = "dict"
               => LET summary == GetSummaryOp(collector, now) IN
                  /\ m_ret'.raised = summary.raised
                  /\ summary.raised = ""
                     => /\ m_ret'.value = summary.value
                        /\ m_ret'.value.toxicity.total_checks
                               = collector.toxicity_metrics.total_checks
                        /\ m_ret'.value.performance.total_samples
                               = Len(collector.performance_metrics.response_times)
            /\ format = "prometheus"
               => /\ m_ret'.raised = ToPrometheusFormat(collector).raised
                  /\ m_ret'.raised \in {"", "ZeroDivisionError"}
                  /\ m_ret'.raised = ""
                     => /\ DOMAIN m_ret'.value =
                               {"reflectpause_toxicity_checks_total",
                                "reflectpause_toxic_detected_total",
                                "reflectpause_toxicity_rate",
                                "reflectpause_cache_hits_total",
                                "reflectpause_cache_hit_rate",
                                "reflectpause_engine_errors_total",
                                "reflectpause_response_time_avg_ms",
                                "reflectpause_response_time_p95_ms",
                                "reflectpause_cache_speedup_factor"}
                        /\ m_ret'.value.reflectpause_toxicity_checks_total
                               = Str(collector.toxicity_metrics.total_checks)
                        /\ m_ret'.value.reflectpause_cache_hits_total
                               = Str(collector.toxicity_metrics.cache_hits)
                        /\ m_ret'.value.reflectpause_engine_errors_total
                               = Str(collector.toxicity_metrics.engine_errors)
            /\ format \notin {"dict", "prometheus"}
               => /\ m_ret'.raised = "ValueError"
                  /\ m_ret'.value = None
      ]_vars

\* C16 witness: an export in an unknown format, asked of a collector that holds
\* a recorded check, has raised ValueError.
C16_Witness ==
    /\ m_ret.op = "export_metrics"
    /\ m_ret.format \notin {"dict", "prometheus"}
    /\ m_ret.raised = "ValueError"
    /\ collector.toxicity_metrics.total_checks = 1
    /\ Len(collector.performance_metrics.response_times) = 1

\* ------------------------------------------- claims: rates, AccuracyTracker
\* C17: on every combination of counts no rate raises, and a rate whose
\* denominator is 0 is exactly 0.0: toxicity_rate and error_rate without
\* checks, cache_hit_rate without cache attempts, accuracy without
\* predictions, precision without positive predictions, recall without actual
\* positives, false_positive_rate without actual negatives, f1_score when
\* precision and recall are both 0, the cache's hit_rate without requests;
\* all of them are 0.0 on objects as constructed.
C17_ZeroDenominators ==
    /\ LET m == collector.toxicity_metrics IN
       /\ ~Raised(ToxicityRate(m))
       /\ ~Raised(CacheHitRate(m))
       /\ ~Raised(ErrorRate(m))
       /\ m.total_checks = 0 => ToxicityRate(m) = Float(0) /\ ErrorRate(m) = Float(0)
       /\ m.cache_hits + m.cache_misses = 0 => CacheHitRate(m) = Float(0)
    /\ \A i \in DOMAIN tracker.engine_metrics :
         LET m == tracker.engine_metrics[i].metrics IN
         /\ ~Raised(Accuracy(m))
         /\ ~Raised(Precision(m))
         /\ ~Raised(Recall(m))
         /\ ~Raised(F1Score(m))
         /\ ~Raised(FalsePositiveRate(m))
         /\ TotalPredictions(m) = 0 => Accuracy(m) = Float(0)
         /\ m.true_positives + m.false_positives = 0 => Precision(m) = Float(0)
         /\ m.true_positives + m.false_negatives = 0 => Recall(m) = Float(0)
         /\ m.true_negatives + m.false_positives = 0 => FalsePositiveRate(m) = Float(0)
         /\ (Precision(m) = Float(0) /\ Recall(m) = Float(0)) => F1Score(m) = Float(0)
    /\ LET s == GetStatsOp(Self).ret IN
       /\ ~Raised(s.hit_rate)
       /\ s.hits + s.misses = 0 => s.hit_rate = Float(0)
    /\ LET fresh == AccuracyMetrics IN
       /\ Accuracy(fresh) = Float(0)
       /\ Precision(fresh) = Float(0)
       /\ Recall(fresh) = Float(0)
       /\ F1Score(fresh) = Float(0)
       /\ FalsePositiveRate(fresh) = Float(0)
    /\ (m_ret.op = "get_summary")
       => /\ m_ret.raised = ""
          /\ m_ret.value.toxicity.toxicity_rate = ToxicityRate(collector.toxicity_metrics)
          /\ m_ret.value.toxicity.cache_hit_rate = CacheHitRate(collector.toxicity_metrics)
          /\ m_ret.value.toxicity.error_rate = ErrorRate(collector.toxicity_metrics)
    /\ (a_ret.op = "get_accuracy_metrics" /\ a_ret.args = <<NoArg>>)
       => /\ a_ret.raised = ""
          /\ \A i \in DOMAIN a_ret.value :
               LET m == tracker.engine_metrics[i].metrics IN
               /\ m.true_positives = 0
                  => /\ a_ret.value[i].precision = Float(0)
                     /\ a_ret.value[i].recall = Float(0)
                     /\ a_ret.value[i].f1_score = Float(0)
               /\ m.false_positives = 0
                  => a_ret.value[i].false_positive_rate = Float(0)

\* C17 witness: a summary read from counters with no checks but with cache
\* attempts reports a toxicity rate and an error rate of 0.0.
C17_Witness ==
    /\ m_ret.op = "get_summary"
    /\ collector.toxicity_metrics.total_checks = 0
    /\ collector.toxicity_metrics.toxic_detected > 0
    /\ collector.toxicity_metrics.cache_hits > 0
    /\ m_ret.value.toxicity.toxicity_rate = Float(0)
    /\ m_ret.value.toxicity.error_rate = Float(0)
    /\ m_ret.value.toxicity.cache_hit_rate # Float(0)

\* A step that is the call record_feedback with these arguments.
RecordFeedbackStep(text, predicted_toxic, actual_toxic, engine_type, confidence_score) ==
    /\ a_ret'.op = "record_feedback"
    /\ a_ret'.args = <<text, predicted_toxic, actual_toxic, engine_type,
                       confidence_score>>
    /\ RecordFeedback(text, predicted_toxic, actual_toxic, engine_type,
                      confidence_score)

\* the four counters of an engine, all 0 for an engine without an entry
EngineCounters(tr, engine_type) ==
    IF HasKey(tr.engine_metrics, engine_type)
    THEN Lookup(tr.engine_metrics, engine_type).metrics
    ELSE [true_positives |-> 0, true_negatives |-> 0,
          false_positives |-> 0, false_negatives |-> 0]

\* C18: a record_feedback for engine E adds 1 to exactly one of E's four
\* counters (true_positives when predicted and actual are both toxic,
\* true_negatives when neither is, false_positives when only the prediction
\* is, false_negatives when only the actual value is) and changes no counter
\* of another engine; after any sequence of calls the four counters of E add
\* up to the number of record_feedback calls made for E.
C18_ConfusionMatrix ==
    [][\A text \in Texts, predicted_toxic \in BOOLEAN, actual_toxic \in BOOLEAN,
          engine_type \in Engines, confidence_score \in ConfidenceScores \cup {None} :
         RecordFeedbackStep(text, predicted_toxic, actual_toxic, engine_type,
                            confidence_score)
         => LET m == EngineCounters(tracker, engine_type)
                n == EngineCounters(tracker', engine_type)
            IN /\ HasKey(tracker'.engine_metrics, engine_type)
               /\ n.true_positives = m.true_positives
                      + (IF predicted_toxic /\ actual_toxic THEN 1 ELSE 0)
               /\ n.true_negatives = m.true_negatives
                      + (IF ~predicted_toxic /\ ~actual_toxic THEN 1 ELSE 0)
               /\ n.false_positives = m.false_positives
                      + (IF predicted_toxic /\ ~actual_toxic THEN 1 ELSE 0)
               /\ n.false_negatives = m.false_negatives
                      + (IF ~predicted_toxic /\ actual_toxic THEN 1 ELSE 0)
               /\ TotalPredictions(n) = TotalPredictions(m) + 1
               /\ \A other \in Engines \ {engine_type} :
                    /\ HasKey(tracker'.engine_metrics, other)
                           = HasKey(tracker.engine_metrics, other)
                    /\ EngineCounters(tracker', other) = EngineCounters(tracker, other)
               /\ \A e \in Engines :
                    TotalPredictions(EngineCounters(tracker', e)) = fb_calls'[e]
      ]_vars

\* C18 witness: two calls for each engine, one of each kind of outcome.
C18_Witness ==
    /\ a_ret.op = "record_feedback"
    /\ \E e1 \in Engines, e2 \in Engines :
         /\ e1 # e2
         /\ fb_calls[e1] = 2
         /\ fb_calls[e2] = 2
         /\ EngineCounters(tracker, e1) =
                [true_positives |-> 1, true_negatives |-> 0,
                 false_positives |-> 0, false_negatives |-> 1]
         /\ EngineCounters(tracker, e2) =
                [true_positives |-> 0, true_negatives |-> 1,
                 false_positives |-> 1, false_negatives |-> 0]

\* x is the percentage num / den, or 0.0 when den is 0
IsPercent(x, num, den) ==
    IF den = 0 THEN x = <<0, 1>>
    ELSE x[2] > 0 /\ x[1] * den = 100 * num * x[2]

\* the report of one engine gives the derived figures of the counters m
ReportsDerived(report, m) ==
    LET tp == m.true_positives
        tn == m.true_negatives
        fp == m.false_positives
        fn == m.false_negatives
        P == report.precision
        R == report.recall
        F == report.f1_score
    IN /\ report.total_predictions = tp + tn + fp + fn
       /\ IsPercent(report.accuracy, tp + tn, tp + tn + fp + fn)
       /\ IsPercent(P, tp, tp + fp)
       /\ IsPercent(R, tp, tp + fn)
       /\ IsPercent(report.false_positive_rate, fp, fp + tn)
       /\ F[2] > 0
       /\ F[1] * (P[1] * R[2] + R[1] * P[2]) = 2 * P[1] * R[1] * F[2]
       /\ (P[1] = 0 /\ R[1] = 0) => F = <<0, 1>>

\* C19: for every engine with recorded feedback get_accuracy_metrics reports,
\* as percentages of that engine's counters, accuracy = (TP+TN)/total,
\* precision = TP/(TP+FP), recall = TP/(TP+FN), false_positive_rate =
\* FP/(FP+TN) and f1_score = 2*P*R/(P+R), for one engine and for all engines;
\* 3 correct positives and 1 false positive for 'onnx' give precision 75.0
\* and recall 100.0.
C19_DerivedMetrics ==
    (a_ret.op = "get_accuracy_metrics")
    => /\ a_ret.raised = ""
       /\ LET engine_type == a_ret.args[1] IN
          IF engine_type = NoArg
          THEN /\ Len(a_ret.value) = Len(tracker.engine_metrics)
               /\ \A i \in DOMAIN a_ret.value :
                    /\ a_ret.value[i].key = tracker.engine_metrics[i].key
                    /\ ReportsDerived(a_ret.value[i], tracker.engine_metrics[i].metrics)
          ELSE HasKey(tracker.engine_metrics, engine_type)
               => LET m == Lookup(tracker.engine_metrics, engine_type).metrics IN
                  /\ a_ret.value.engine_type = engine_type
                  /\ a_ret.value.confusion_matrix = m
                  /\ ReportsDerived(a_ret.value, m)
                  /\ m = [true_positives |-> 3, true_negatives |-> 0,
                          false_positives |-> 1, false_negatives |-> 0]
                     => /\ a_ret.value.precision = <<75, 1>>
                        /\ a_ret.value.recall = <<100, 1>>

\* C19 witness: the report for 'onnx' after 3 correct positives and 1 false
\* positive: precision 75.0, recall 100.0.
C19_Witness ==
    /\ a_ret.op = "get_accuracy_metrics"
    /\ a_ret.args = <<"onnx">>
    /\ fb_calls["onnx"] = 4
    /\ EngineCounters(tracker, "onnx") =
           [true_positives |-> 3, true_negatives |-> 0,
            false_positives |-> 1, false_negatives |-> 0]
    /\ a_ret.value.precision = <<75, 1>>
    /\ a_ret.value.recall = <<100, 1>>

\* the (score, actual) pairs of a confidence bucket, none for a bucket that
\* has not been created
BucketEntries(tr, bucket) ==
    IF HasKey(tr.confidence_buckets, bucket)
    THEN Lookup(tr.confidence_buckets, bucket).entries
    ELSE << >>

BucketNames == {"0.0-0.2", "0.2-0.4", "0.4-0.6", "0.6-0.8", "0.8-1.0"}

\* the bucket whose range holds a score in hundredths: [0, 0.2), [0.2, 0.4),
\* [0.4, 0.6), [0.6, 0.8), [0.8, 1.0]
RangeOf(score) ==
    CASE score \in 0..19 -> "0.0-0.2"
      [] score \in 20..39 -> "0.2-0.4"
      [] score \in 40..59 -> "0.4-0.6"
      [] score \in 60..79 -> "0.6-0.8"
      [] score \in 80..100 -> "0.8-1.0"

\* C20: a record_feedback with a confidence score appends (score, actual) to
\* exactly one of the five buckets, the one whose range holds the score, lower
\* bound inclusive and upper bound exclusive except for the top bucket: 0.2
\* goes to [0.2, 0.4) and 1.0 to the top bucket; a call without a confidence
\* score changes no bucket.
C20_ConfidenceBuckets ==
    [][\A text \in Texts, predicted_toxic \in BOOLEAN, actual_toxic \in BOOLEAN,
          engine_type \in Engines, confidence_score \in ConfidenceScores \cup {None} :
         RecordFeedbackStep(text, predicted_toxic, actual_toxic, engine_type,
                            confidence_score)
         => IF confidence_score = None
            THEN tracker'.confidence_buckets = tracker.confidence_buckets
            ELSE /\ Keys(tracker'.confidence_buckets) \subseteq BucketNames
                 /\ Unique(tracker'.confidence_buckets)
                 /\ \A bucket \in BucketNames :
                      BucketEntries(tracker', bucket) =
                          IF bucket = RangeOf(confidence_score)
                          THEN Append(BucketEntries(tracker, bucket),
                                      <<confidence_score, actual_toxic>>)
                          ELSE BucketEntries(tracker, bucket)
                 /\ confidence_score = 20
                    => Len(BucketEntries(tracker', "0.2-0.4"))
                           = Len(BucketEntries(tracker, "0.2-0.4")) + 1
                 /\ confidence_score = 100
                    => Len(BucketEntries(tracker', "0.8-1.0"))
                           = Len(BucketEntries(tracker, "0.8-1.0")) + 1
      ]_vars

\* C20 witness: scores 0.2 and 1.0 have been recorded; the first is in
\* [0.2, 0.4), the second in the top bucket, and [0.0, 0.2) holds nothing.
C20_Witness ==
    /\ a_ret.op = "record_feedback"
    /\ Len(tracker.feedback_history) = 2
    /\ tracker.feedback_history[1].confidence_score = 20
    /\ tracker.feedback_history[2].confidence_score = 100
    /\ Len(BucketEntries(tracker, "0.2-0.4")) = 1
    /\ BucketEntries(tracker, "0.2-0.4")[1][1] = 20
    /\ Len(BucketEntries(tracker, "0.8-1.0")) = 1
    /\ BucketEntries(tracker, "0.8-1.0")[1][1] = 100
    /\ BucketEntries(tracker, "0.0-0.2") = << >>

\* ------------------------------------- claims: AccuracyTracker, every call
\* The last call of the tracker and the state it left.  What a call hands
\* back is a function of the two, so a step that changes the state changes
\* trackerCalls.
trackerCalls == <<a_ret.op, a_ret.args, tracker, fb_calls, storage_file, disk, io>>

\* the step is a call op(args) of the tracker
TrackerCall(op, args) == a_ret'.op = op /\ a_ret'.args = args

Min(a, b) == IF a < b THEN a ELSE b

\* C21: get_feedback_summary(limit), for every limit >= 0 and a history of n
\* records, returns exactly the last min(limit, n) records, in the order they
\* were recorded, and changes no tracker state.
C21_FeedbackSummary ==
    [][\A limit \in 0..MaxLimit :
         (TrackerCall("get_feedback_summary", <<limit>>) /\ GetFeedbackSummary(limit))
         => LET n == Len(tracker.feedback_history)
                k == Min(limit, n)
            IN /\ a_ret'.value = SubSeq(tracker.feedback_history, n - k + 1, n)
               /\ tracker' = tracker
      ]_trackerCalls

\* C22: validate_predictions scores only the predictions whose text has a
\* ground-truth entry: total_validated is their number, matched_ground_truth
\* the number of them whose predicted_toxic equals the stored label, accuracy
\* their ratio as a percentage (0.0 when no prediction was scored), details
\* has one item per scored prediction in input order; predictions without
\* ground truth are left out without an error, and the call changes no
\* tracker state.
C22_ValidatePredictions ==
    [][\A predictions \in PredictionLists :
         (TrackerCall("validate_predictions", <<predictions>>)
              /\ ValidatePredictions(predictions))
         => LET r == a_ret'.value
                label(i) == Lookup(tracker.ground_truth,
                                   HashText(predictions[i][1])).is_toxic
                scored == {i \in DOMAIN predictions :
                              \E e \in DOMAIN tracker.ground_truth :
                                  tracker.ground_truth[e].key
                                      = HashText(predictions[i][1])}
                matched == {i \in scored : predictions[i][2] = label(i)}
                place(i) == Cardinality({j \in scored : j <= i})
            IN /\ a_ret'.raised = ""
               /\ r.total_validated = Cardinality(scored)
               /\ r.matched_ground_truth = Cardinality(matched)
               /\ IsPercent(r.accuracy, Cardinality(matched), Cardinality(scored))
               /\ Len(r.details) = Cardinality(scored)
               /\ \A i \in scored :
                    /\ r.details[place(i)].predicted = predictions[i][2]
                    /\ r.details[place(i)].actual = label(i)
                    /\ r.details[place(i)].correct = (i \in matched)
                    /\ r.details[place(i)].engine = predictions[i][3]
                    /\ r.details[place(i)].confidence = predictions[i][4]
               /\ tracker' = tracker
      ]_trackerCalls

\* C22 witness: two predictions were validated, ground truth is known for
\* the text of the first only, and that prediction agrees with it.
C22_Witness ==
    /\ a_ret.op = "validate_predictions"
    /\ Len(a_ret.args[1]) = 2
    /\ HasKey(tracker.ground_truth, HashText(a_ret.args[1][1][1]))
    /\ ~HasKey(tracker.ground_truth, HashText(a_ret.args[1][2][1]))
    /\ tracker.feedback_history # << >>
    /\ a_ret.value.total_validated = 1
    /\ a_ret.value.matched_ground_truth = 1
    /\ a_ret.value.accuracy = <<100, 1>>
    /\ Len(a_ret.value.details) = 1

\* C23: import_ground_truth inserts only the digests that are not yet in the
\* ground-truth table and never changes the label of one that is, even when
\* the imported label differs; it returns the number of entries inserted, so
\* a second import of the same map returns 0 and changes nothing, and
\* export_ground_truth followed by an import of the exported map returns 0.
C23_ImportGroundTruth ==
    [][/\ \A ground_truth \in GroundTruthMaps :
            (TrackerCall("import_ground_truth", <<ground_truth>>)
                 /\ ImportGroundTruth(ground_truth))
            => LET old == tracker.ground_truth
                   new == tracker'.ground_truth
                   fresh == {i \in DOMAIN ground_truth :
                                \A e \in DOMAIN old : old[e].key # ground_truth[i].key}
               IN /\ Len(new) >= Len(old)
                  /\ \A e \in DOMAIN old : new[e] = old[e]
                  /\ {new[e] : e \in DOMAIN new \ DOMAIN old}
                         = {ground_truth[i] : i \in fresh}
                  /\ Len(new) = Len(old) + Cardinality(fresh)
                  /\ a_ret'.raised = ""
                  /\ a_ret'.value = Cardinality(fresh)
                  /\ tracker' = [tracker EXCEPT !.ground_truth = new]
                  /\ ImportGroundTruthOp(tracker', ground_truth)
                         = [tracker |-> tracker', imported |-> 0]
       /\ (TrackerCall("export_ground_truth", << >>) /\ ExportGroundTruth)
            => /\ a_ret'.value = tracker.ground_truth
               /\ ImportGroundTruthOp(tracker', a_ret'.value)
                      = [tracker |-> tracker', imported |-> 0]
      ]_trackerCalls

\* C23 witness: a map of two entries was imported into a tracker with
\* feedback; one digest was new, the other was known with the opposite label
\* and has kept its own.
C23_Witness ==
    /\ a_ret.op = "import_ground_truth"
    /\ Len(a_ret.args[1]) = 2
    /\ a_ret.value = 1
    /\ tracker.feedback_history # << >>
    /\ \E i \in DOMAIN a_ret.args[1] :
         /\ HasKey(tracker.ground_truth, a_ret.args[1][i].key)
         /\ Lookup(tracker.ground_truth, a_ret.args[1][i].key).is_toxic
                # a_ret.args[1][i].is_toxic

\* ------------------------------------- claims: AccuracyTracker and its file
\* the call made one attempt to write the file, and a write that succeeded
\* left a file from which a new tracker loads the state tr
WrittenOnce(tr) ==
    /\ Len(io') = 1
    /\ io'[1] = "ok" => LoadData(storage_file, disk') = tr

\* C24: reset_accuracy_data(E) removes E's AccuracyMetrics and every feedback
\* record whose engine is E, and leaves the metrics and the feedback records
\* of every other engine unchanged and in their order; without an engine it
\* empties engine metrics, feedback history, ground truth and confidence
\* buckets; afterwards get_accuracy_metrics(E) reports that there is no data,
\* and each form ends with one write of the resulting state to the file.
C24_ResetAccuracyData ==
    [][/\ \A engine_type \in Engines :
            (TrackerCall("reset_accuracy_data", <<engine_type>>)
                 /\ ResetAccuracyData(engine_type))
            => LET old == tracker.feedback_history
                   new == tracker'.feedback_history
                   kept == {i \in DOMAIN old : old[i].engine_type # engine_type}
                   place(i) == Cardinality({j \in kept : j <= i})
                   others == {e \in DOMAIN tracker.engine_metrics :
                                 tracker.engine_metrics[e].key # engine_type}
                   rank(e) == Cardinality({f \in others : f <= e})
               IN /\ \A e \in DOMAIN tracker'.engine_metrics :
                       tracker'.engine_metrics[e].key # engine_type
                  /\ Len(tracker'.engine_metrics) = Cardinality(others)
                  /\ \A e \in others :
                       tracker'.engine_metrics[rank(e)] = tracker.engine_metrics[e]
                  /\ Len(new) = Cardinality(kept)
                  /\ \A i \in kept : new[place(i)] = old[i]
                  /\ GetAccuracyMetricsOp(tracker', engine_type)
                         = Ok([error |-> "No data for engine: " \o engine_type])
                  /\ a_ret'.raised = ""
                  /\ WrittenOnce(tracker')
       /\ (TrackerCall("reset_accuracy_data", <<NoArg>>) /\ ResetAccuracyData(NoArg))
            => /\ tracker'.engine_metrics = << >>
               /\ tracker'.feedback_history = << >>
               /\ tracker'.ground_truth = << >>
               /\ tracker'.confidence_buckets = << >>
               /\ \A engine_type \in Engines :
                    GetAccuracyMetricsOp(tracker', engine_type)
                        = Ok([error |-> "No data for engine: " \o engine_type])
               /\ a_ret'.raised = ""
               /\ WrittenOnce(tracker')
      ]_trackerCalls

\* C24 witness: 'onnx' has been reset and the reset was written; the two
\* records of 'other', which differ, are left in the history with the metrics
\* of 'other', and the ground truth is still there.
C24_Witness ==
    /\ a_ret.op = "reset_accuracy_data"
    /\ a_ret.args = <<"onnx">>
    /\ io = <<"ok">>
    /\ disk = Snapshot(tracker)
    /\ Len(tracker.feedback_history) = 2
    /\ tracker.feedback_history[1].engine_type = "other"
    /\ tracker.feedback_history[2].engine_type = "other"
    /\ tracker.feedback_history[1] # tracker.feedback_history[2]
    /\ Keys(tracker.engine_metrics) = {"other"}
    /\ tracker.ground_truth # << >>

\* the records of the history h on the text with this digest, in order
RecordsOn(h, digest) == SelectSeq(h, LAMBDA r : r.text_hash = digest)

\* the table tr.ground_truth holds, for each text with feedback in the
\* history, the actual_toxic of the most recent feedback on it
MostRecentLabels(tr) ==
    \A text \in Texts :
       LET on == RecordsOn(tr.feedback_history, HashText(text)) IN
       on # << >>
       => /\ HasKey(tr.ground_truth, HashText(text))
          /\ Lookup(tr.ground_truth, HashText(text)).is_toxic = on[Len(on)].actual_toxic

\* C25: every record_feedback appends exactly one record at the end of the
\* history, with the call's predicted_toxic, actual_toxic, engine_type,
\* confidence_score and the matching outcome class, and never modifies,
\* removes or reorders earlier records; it sets the ground-truth entry of the
\* text's digest to actual_toxic and leaves the entries of other texts alone,
\* so after every call the table holds the actual_toxic of the most recent
\* feedback for each text.
C25_HistoryAndGroundTruth ==
    [][/\ \A text \in Texts, predicted_toxic \in BOOLEAN, actual_toxic \in BOOLEAN,
             engine_type \in Engines, confidence_score \in FeedbackConfidences :
            RecordFeedbackStep(text, predicted_toxic, actual_toxic, engine_type,
                               confidence_score)
            => LET old == tracker.feedback_history
                   new == tracker'.feedback_history
                   last == new[Len(new)]
                   digest == HashText(text)
                   class == CASE predicted_toxic /\ actual_toxic -> "correct_positive"
                              [] ~predicted_toxic /\ ~actual_toxic -> "correct_negative"
                              [] predicted_toxic /\ ~actual_toxic -> "false_positive"
                              [] ~predicted_toxic /\ actual_toxic -> "false_negative"
               IN /\ Len(new) = Len(old) + 1
                  /\ SubSeq(new, 1, Len(old)) = old
                  /\ last.text_hash = digest
                  /\ last.predicted_toxic = predicted_toxic
                  /\ last.actual_toxic = actual_toxic
                  /\ last.engine_type = engine_type
                  /\ last.confidence_score = confidence_score
                  /\ last.feedback_type = class
                  /\ Unique(tracker'.ground_truth)
                  /\ Keys(tracker'.ground_truth) = Keys(tracker.ground_truth) \cup {digest}
                  /\ Lookup(tracker'.ground_truth, digest).is_toxic = actual_toxic
                  /\ \A k \in Keys(tracker.ground_truth) \ {digest} :
                       Lookup(tracker'.ground_truth, k) = Lookup(tracker.ground_truth, k)
       /\ MostRecentLabels(tracker')
      ]_trackerCalls

\* C25 witness: three feedback calls, the third on the text of the first
\* with the opposite label.  The history holds the three in the order of the
\* calls, each with its own class and confidence (a correct positive without
\* confidence, a false negative and a correct negative with confidence 40),
\* and the table holds the label of the third for text "a" and the label of
\* the second for text "b".
C25_Witness ==
    /\ a_ret.op = "record_feedback"
    /\ a_ret.args = <<"a", FALSE, FALSE, "onnx", 40>>
    /\ Len(tracker.feedback_history) = 3
    /\ tracker.feedback_history[1].text_hash = HashText("a")
    /\ tracker.feedback_history[1].feedback_type = "correct_positive"
    /\ tracker.feedback_history[1].confidence_score = None
    /\ tracker.feedback_history[1].engine_type = "other"
    /\ tracker.feedback_history[2].text_hash = HashText("b")
    /\ tracker.feedback_history[2].feedback_type = "false_negative"
    /\ tracker.feedback_history[2].confidence_score = 40
    /\ tracker.feedback_history[3].text_hash = HashText("a")
    /\ tracker.feedback_history[3].feedback_type = "correct_negative"
    /\ tracker.feedback_history[3].confidence_score = 40
    /\ tracker.feedback_history[3].engine_type = "onnx"
    /\ ~Lookup(tracker.ground_truth, HashText("a")).is_toxic
    /\ Lookup(tracker.ground_truth, HashText("b")).is_toxic

\* C26: with a storage file, every record_feedback, import_ground_truth and
\* reset_accuracy_data makes one attempt to save the whole in-memory state
\* before it returns; when the save fails the call does not raise and the
\* change it made stays in memory, and a later save that succeeds writes the
\* accumulated state.
C26_WriteThrough ==
    [][/\ \A text \in Texts, predicted_toxic \in BOOLEAN, actual_toxic \in BOOLEAN,
             engine_type \in Engines :
            RecordFeedbackStep(text, predicted_toxic, actual_toxic, engine_type, None)
            => /\ a_ret'.raised = ""
               /\ Len(tracker'.feedback_history) = Len(tracker.feedback_history) + 1
               /\ TotalPredictions(EngineCounters(tracker', engine_type))
                      = TotalPredictions(EngineCounters(tracker, engine_type)) + 1
               /\ Lookup(tracker'.ground_truth, HashText(text)).is_toxic = actual_toxic
               /\ WrittenOnce(tracker')
       /\ \A ground_truth \in GroundTruthMaps :
            (TrackerCall("import_ground_truth", <<ground_truth>>)
                 /\ ImportGroundTruth(ground_truth))
            => /\ a_ret'.raised = ""
               /\ Keys(tracker'.ground_truth)
                      = Keys(tracker.ground_truth) \cup Keys(ground_truth)
               /\ WrittenOnce(tracker')
       /\ \A engine_type \in Engines \cup {NoArg} :
            (TrackerCall("reset_accuracy_data", <<engine_type>>)
                 /\ ResetAccuracyData(engine_type))
            => /\ a_ret'.raised = ""
               /\ \A i \in DOMAIN tracker'.feedback_history :
                    /\ engine_type # NoArg
                    /\ tracker'.feedback_history[i].engine_type # engine_type
               /\ WrittenOnce(tracker')
      ]_trackerCalls

\* C26 witness: the save of the second feedback stopped part-way and left a
\* file that cannot be read; the call returned normally and both records,
\* their counters and the ground truth are in memory.
C26_Witness ==
    /\ a_ret.op = "record_feedback"
    /\ a_ret.raised = ""
    /\ io = <<"write">>
    /\ disk = NotJson
    /\ Len(tracker.feedback_history) = 2
    /\ fb_calls["onnx"] = 1
    /\ fb_calls["other"] = 1
    /\ TotalPredictions(EngineCounters(tracker, "onnx")) = 1
    /\ TotalPredictions(EngineCounters(tracker, "other")) = 1
    /\ tracker.ground_truth # << >>

\* the load of the file d fails: there is no file, it is not a JSON object,
\* or an entry of its 'engine_metrics' is not an object
LoadFails(d) ==
    \/ d.kind # "json"
    \/ \E e \in DOMAIN d.engine_metrics : d.engine_metrics[e].data = NotAnObject

\* C27: constructing a tracker over missing, unreadable or malformed data
\* never fails, and whenever the load fails at any point the tracker starts
\* empty: no engine metrics, no feedback history, no ground truth and no
\* confidence buckets; no partially loaded data is kept.
C27_LoadFailureEmpty ==
    (a_ret.op = "__init__")
    => /\ a_ret.raised = ""
       /\ LoadFails(disk)
          => /\ tracker.engine_metrics = << >>
             /\ tracker.feedback_history = << >>
             /\ tracker.ground_truth = << >>
             /\ tracker.confidence_buckets = << >>

\* ------------------------------------------------------------ claims: check
\* where the calls of check are: the calls begun, the calls that have
\* returned and the position of each thread
CheckPos == <<c_calls, c_ret.n, [t \in Threads |-> task[t].pc]>>

\* thread t takes the step of its check that leaves position pc
Step(t, pc) == InCheck(t) /\ task[t].pc = pc /\ task'[t].pc # pc

\* a call of check begins in the step
Begins == c_calls' = c_calls + 1

\* a call of check returns or raises in the step
CheckReturns == c_ret'.n = c_ret.n + 1

\* the step leaves the cache, the collector and the engine as they were
Untouched == Self' = Self /\ collector' = collector /\ engine' = engine

\* the entry of text is found by a get now
CacheHits(text) == GetOp(Self, text, "onnx", now, now).ret # None

\* the calls a check makes once the engine exists
CallsMade(trace) == SelectSeq(trace, LAMBDA call : call # "ONNXEngine")

\* the call before this one cached the score of text, and no other check
\* ran beside either of them
SecondCheck(t) ==
    /\ task[t].alone
    /\ c_ret.alone
    /\ c_ret.raised = ""
    /\ Times(c_ret.trace, "put") = 1
    /\ c_ret.args[1] = task[t].args[1]

\* C28: with always_prompt off, valid input and a working engine, check
\* makes one cache get before any other call; on a hit it uses the cached
\* score with no analyze and no put; on a miss it calls analyze once and puts
\* that score; one record_toxicity_check follows with was_cached equal to
\* the hit, and nothing more is recorded before check returns score >
\* threshold; a score equal to the threshold gives False; and a check of the
\* text whose score the check before it cached, within the TTL and for the
\* same threshold, with no other check beside them, hits and returns what
\* that check returned.
C28_CheckControlFlow ==
    [][\A t \in Threads :
        LET text == task[t].args[1]
            k == GenerateKey(text, "onnx")
            threshold == Tenths(task[t].threshold)
            hit == task[t].cached_score # None
            used == IF hit THEN task[t].cached_score ELSE task[t].score
            tm == collector.toxicity_metrics
        IN
        /\ Step(t, "get") =>
              /\ CallsMade(task[t].trace) = << >>
              /\ collector' = collector
              /\ IF CacheHits(text)
                 THEN task'[t].pc = "touch" /\ Self' = Self
                 ELSE /\ task'[t].pc = "analyze"
                      /\ CallsMade(task'[t].trace) = <<"get">>
                      /\ Self' = GetOp(Self, text, "onnx", now, now).state
              /\ SecondCheck(t) =>
                    /\ HasKey(cache, k)
                    /\ (now - Lookup(cache, k).timestamp <= ttl_seconds)
                          => task'[t].pc = "touch"
        /\ Step(t, "touch") =>
              /\ task'[t].pc = "record"
              /\ task'[t].cached_score = Lookup(cache, k).toxicity_score
              /\ CallsMade(task'[t].trace) = <<"get">>
              /\ Self' = GetOp(Self, text, "onnx", task[t].t1, now).state
              /\ collector' = collector
        /\ (Step(t, "analyze") /\ task'[t].fault = "none") =>
              /\ task'[t].pc = "put_time"
              /\ task'[t].score \in EngineScores
              /\ CallsMade(task'[t].trace) = <<"get", "analyze">>
              /\ \A l \in DOMAIN holder : holder[l] # t
              /\ Untouched
        /\ Step(t, "put") =>
              /\ task'[t].pc = "record"
              /\ CallsMade(task'[t].trace) = <<"get", "analyze", "put">>
              /\ Self' = PutOp(Self, text, "onnx", task[t].score,
                               task[t].current_time).state
              /\ Lookup(cache', k).toxicity_score = task[t].score
              /\ collector' = collector
        /\ (Step(t, "record") /\ task[t].fault = "none") =>
              /\ task'[t].pc = "monitor"
              /\ task'[t].result = (used > threshold)
              /\ (used = threshold) => (task'[t].result = FALSE)
              /\ CallsMade(task'[t].trace) =
                     IF hit THEN <<"get", "record_toxicity_check">>
                     ELSE <<"get", "analyze", "put", "record_toxicity_check">>
              /\ Self' = Self
              /\ collector'.toxicity_metrics =
                     [tm EXCEPT !.total_checks = @ + 1,
                                !.toxic_detected = IF used > threshold THEN @ + 1 ELSE @,
                                !.non_toxic_detected = IF used > threshold THEN @ ELSE @ + 1,
                                !.cache_hits = IF hit THEN @ + 1 ELSE @,
                                !.cache_misses = IF hit THEN @ ELSE @ + 1]
        /\ (Step(t, "monitor") \/ Step(t, "latency")) =>
              /\ Untouched
              /\ \/ task[t].pc = "monitor" /\ task'[t].pc = "latency"
                 \/ /\ CheckReturns
                    /\ c_ret'.raised = ""
                    /\ c_ret'.value = task[t].result
                    /\ Times(c_ret'.trace, "record_toxicity_check") = 1
                    /\ (SecondCheck(t) /\ hit /\ c_ret.threshold = task[t].threshold)
                          => c_ret'.value = c_ret.value]_CheckPos

\* the texts other than text that check accepts
OtherTexts(text) == {other \in Texts : other # text}

\* C29: when the creation of the engine or analyze raises, the failure puts
\* nothing in the cache and check goes straight to record one metrics event
\* that adds one to total_checks and to engine_errors and leaves every other
\* field of the collector as it was, makes no put, has called analyze at
\* most once and raises RuntimeError; when no other check ran beside it, the
\* cache holds no entry for the text, and a working check of another text
\* made next returns the same value, with the same calls after the engine is
\* there, and leaves the same collector, up to those two counters, as it
\* would have had the failed call not been made.
C29_EngineFailure ==
    [][\A t \in Threads :
        LET text == task[t].args[1]
            tm == collector.toxicity_metrics
        IN
        /\ (Step(t, "create") /\ task'[t].fault = "create") =>
              /\ task'[t].pc = "record"
              /\ task'[t].trace = <<"ONNXEngine">>
              /\ Untouched
        /\ (Step(t, "analyze") /\ task'[t].fault = "analyze") =>
              /\ task'[t].pc = "record"
              /\ CallsMade(task'[t].trace) = <<"get", "analyze">>
              /\ Untouched
        /\ (Step(t, "record") /\ task[t].fault \in {"create", "analyze"}) =>
              /\ CheckReturns
              /\ c_ret'.raised = "RuntimeError"
              /\ c_ret'.fault = task[t].fault
              /\ collector' =
                     [collector EXCEPT
                         !.toxicity_metrics = [tm EXCEPT !.total_checks = @ + 1,
                                                         !.engine_errors = @ + 1]]
              /\ Self' = Self
              /\ engine' = engine
              /\ Times(c_ret'.trace, "record_toxicity_check") = 1
              /\ Times(c_ret'.trace, "put") = 0
              /\ Times(c_ret'.trace, "analyze") =
                     IF task[t].fault = "analyze" THEN 1 ELSE 0
              /\ task[t].alone =>
                    /\ ~HasKey(cache', GenerateKey(text, "onnx"))
                    /\ \A other \in OtherTexts(text), later \in EngineScores,
                          duration_ms \in CheckDurations, ts \in Readings(5, now) :
                          LET before == task[t].before
                              without == CheckOp(before.state, before.collector,
                                                 before.engine, config[1], <<other>>,
                                                 "none", later, duration_ms, ts)
                              after == CheckOp(Self', collector', engine', config[1],
                                               <<other>>, "none", later, duration_ms, ts)
                              wtm == without.collector.toxicity_metrics
                          IN /\ after.raised = without.raised
                             /\ after.value = without.value
                             /\ CallsMade(after.trace) = CallsMade(without.trace)
                             /\ after.collector =
                                    [without.collector EXCEPT
                                        !.toxicity_metrics =
                                            [wtm EXCEPT !.total_checks = @ + 1,
                                                        !.engine_errors = @ + 1]]]_CheckPos

\* analyze raised in the second check, on a text other than the one the
\* first check cached: one error is counted and the first entry is kept
C29_Witness ==
    /\ c_ret.n = 2
    /\ c_ret.alone
    /\ c_ret.args = <<"b">>
    /\ c_ret.fault = "analyze"
    /\ c_ret.raised = "RuntimeError"
    /\ c_ret.trace = <<"get", "analyze", "record_toxicity_check">>
    /\ collector.toxicity_metrics.total_checks = 2
    /\ collector.toxicity_metrics.engine_errors = 1
    /\ collector.toxicity_metrics.cache_misses = 1
    /\ HasKey(cache, GenerateKey("a", "onnx"))
    /\ ~HasKey(cache, GenerateKey("b", "onnx"))

\* a threshold is given in the call
GivenThreshold(args) == Len(args) >= 2 /\ args[2] # None

\* the threshold is a number outside [0, 1]
OutOfRange(threshold) ==
    ~Incomparable(threshold) /\ Tenths(threshold) \notin 0..10

\* C30: check of an empty or blank text, or with a threshold that is a
\* number outside [0, 1] (the argument, or the default of the settings when
\* none is given), whatever always_prompt is, raises ValueError and changes
\* nothing: the call makes no call to the cache, the collector or the
\* engine, and the cache with its entries, access times and counters, the
\* collector and the engine are as before in every step the call takes.
C30_InvalidInput ==
    [][/\ Begins =>
             /\ Untouched
             /\ \/ /\ CheckReturns
                   /\ c_ret'.raised = "ValueError"
                   /\ c_ret'.trace = << >>
                   /\ c_ret'.args[1] \in {"", " "}
                \/ \E t \in Threads :
                      /\ task[t].pc = "idle"
                      /\ task'[t].pc \in {"construct", "threshold"}
                      /\ task'[t].args[1] \notin {"", " "}
                      /\ task'[t].trace = << >>
       /\ \A t \in Threads :
             /\ (Step(t, "construct") \/ Step(t, "return")) =>
                   /\ Untouched
                   /\ task'[t].trace = << >>
             /\ Step(t, "threshold") =>
                   /\ Untouched
                   /\ task'[t].trace = << >>
                   /\ task'[t].threshold =
                          IF GivenThreshold(task[t].args) THEN PyFloat(task[t].args[2])
                          ELSE Manager(task[t].config).toxicity.default_threshold
             /\ Step(t, "settings") =>
                   /\ Untouched
                   /\ OutOfRange(task[t].threshold) =>
                         /\ CheckReturns
                         /\ c_ret'.raised = "ValueError"
                         /\ c_ret'.trace = << >>]_CheckPos

\* a threshold of 1.1 was refused with always_prompt given as true, after a
\* check that cached a score
C30_Witness ==
    /\ c_ret.n = 2
    /\ c_ret.raised = "ValueError"
    /\ c_ret.args = <<"a", 11, TRUE>>
    /\ c_ret.threshold = PyFloat(11)
    /\ c_ret.trace = << >>
    /\ Len(cache) = 1
    /\ engine = "onnx"
    /\ collector.toxicity_metrics.total_checks = 1

\* always_prompt is true in the call: given as true, or not given and true
\* in the settings cfg
PromptsAlways(args, cfg) ==
    \/ Len(args) = 3 /\ args[3]
    \/ Len(args) < 3 /\ Truthy(cfg.toxicity.always_prompt)

\* C33: check of a non-empty text with a threshold in [0, 1] and
\* always_prompt true, given or from the settings at the time the call
\* reads them, returns True whatever the engine would score, and makes no
\* call: the engine is not created, the cache and the collector are as
\* before.
C33_AlwaysPrompt ==
    [][\A t \in Threads :
        (/\ Step(t, "settings")
         /\ ~Incomparable(task[t].threshold)
         /\ Tenths(task[t].threshold) \in 0..10
         /\ PromptsAlways(task[t].args, Manager(task[t].config))) =>
            /\ CheckReturns
            /\ c_ret'.raised = ""
            /\ c_ret'.value = TRUE
            /\ c_ret'.trace = << >>
            /\ task[t].trace = << >>
            /\ Untouched]_CheckPos

\* the first check, of the text alone, went to the engine and cached a
\* score, so always_prompt was off in the settings; update_config then stored
\* bool('false') in always_prompt, and that answered the second check of a
\* text alone: no call was made and nothing more is recorded
C33_Witness ==
    /\ c_ret.n = 2
    /\ config = <<[DefaultConfig EXCEPT !.toxicity.always_prompt = PyBool(TRUE)]>>
    /\ c_ret.args = <<"a">>
    /\ c_ret.threshold = PyFloat(DefaultThreshold)
    /\ c_ret.raised = ""
    /\ c_ret.trace = << >>
    /\ c_ret.value = TRUE
    /\ engine = "onnx"
    /\ Len(cache) = 1
    /\ HasKey(cache, GenerateKey("b", "onnx"))
    /\ collector.toxicity_metrics.total_checks = 1

\* ------------------------------------- claims: orchestration and concurrency
\* the call names a target the cache does not hold: a text and engine with
\* no entry, or an engine with no entry
UnknownTarget(text, engine_type) ==
    \/ /\ text # NoArg
       /\ ~HasKey(cache, GenerateKey(text, IF engine_type = NoArg THEN "" ELSE engine_type))
    \/ /\ text = NoArg
       /\ engine_type # NoArg
       /\ \A i \in DOMAIN cache : cache[i].engine_type # engine_type

\* C34: an invalidate that names a target for which the cache holds no entry
\* does not return a count: it fails with an invalid-input error, and leaves
\* the entries, the access times and the counters as they were.
C34_UnknownTarget ==
    [][\A text \in Texts \cup {NoArg}, engine_type \in Engines \cup {NoArg} :
         (InvalidateStep(text, engine_type) /\ UnknownTarget(text, engine_type))
         => /\ ret' \notin Nat
            /\ cache' = cache
            /\ access_times' = access_times
            /\ stats' = stats
      ]_vars

RECURSIVE SumChecks(_)
SumChecks(engine_stats) ==
    IF engine_stats = << >> THEN 0
    ELSE Head(engine_stats).metrics.total_checks + SumChecks(Tail(engine_stats))

\* C36: after any calls of record_toxicity_check and reset_metrics the
\* global total_checks is toxic_detected + non_toxic_detected +
\* engine_errors, and cache_hits + cache_misses is toxic_detected +
\* non_toxic_detected; each engine's total_checks is its toxic_detected +
\* non_toxic_detected, and its engine_errors, cache_hits and cache_misses
\* are 0; the engines' total_checks add up to the global total_checks less
\* engine_errors; and a summary reports an error_rate of 0.0 for every engine.
C36_Conservation ==
    LET m == collector.toxicity_metrics IN
    /\ m.total_checks = m.toxic_detected + m.non_toxic_detected + m.engine_errors
    /\ m.cache_hits + m.cache_misses = m.toxic_detected + m.non_toxic_detected
    /\ \A i \in DOMAIN collector.engine_stats :
         LET em == collector.engine_stats[i].metrics IN
         /\ em.total_checks = em.toxic_detected + em.non_toxic_detected
         /\ em.engine_errors = 0
         /\ em.cache_hits = 0
         /\ em.cache_misses = 0
    /\ SumChecks(collector.engine_stats) = m.total_checks - m.engine_errors
    /\ (m_ret.op = "get_summary" /\ m_ret.raised = "")
       => \A i \in DOMAIN m_ret.value.engines :
            m_ret.value.engines[i].error_rate = Float(0)

\* a failed check and a successful, cached one were recorded: the engine
\* counts one check, the collector two
C36_Witness ==
    /\ m_ret.op = "record_toxicity_check"
    /\ collector.toxicity_metrics.total_checks = 2
    /\ collector.toxicity_metrics.engine_errors = 1
    /\ collector.toxicity_metrics.non_toxic_detected = 1
    /\ collector.toxicity_metrics.cache_hits = 1
    /\ Len(collector.engine_stats) = 1
    /\ collector.engine_stats[1].metrics.total_checks = 1
    /\ collector.engine_stats[1].metrics.cache_hits = 0

\* the last call was get_summary, export_metrics('dict') or
\* export_metrics('prometheus')
ReadsSnapshot ==
    \/ m_ret.op = "get_summary"
    \/ m_ret.op = "export_metrics" /\ m_ret.format \in {"dict", "prometheus"}

\* C37: get_summary and export_metrics ('dict' and 'prometheus') return a
\* snapshot and never raise, whatever non-negative durations were recorded,
\* a cached check of 0 ms included; the speedup of the summary is 1.0 when
\* the cached or the analysed series is empty and a number otherwise.
C37_SummaryTotal ==
    ReadsSnapshot =>
        /\ m_ret.raised = ""
        /\ m_ret.op = "get_summary" =>
             LET p == collector.performance_metrics
                 factor == m_ret.value.performance.cache_speedup_factor
             IN /\ ~Raised(factor)
                /\ (p.cached_response_times = << >> \/ p.analyzed_response_times = << >>)
                   => factor = Float(1)

\* the feedback records of the engine in the history
RecordsOf(engine_type) ==
    SelectSeq(tracker.feedback_history, LAMBDA record : record.engine_type = engine_type)

\* C39: from an empty tracker, after any calls of record_feedback and of
\* reset_accuracy_data, scoped or full, the history holds for every engine
\* as many records as the engine's four counters add up to, and the engine
\* has an entry of metrics exactly when the history holds a record of it.
C39_HistoryMatchesMatrix ==
    \A engine_type \in Engines :
        /\ HasKey(tracker.engine_metrics, engine_type) <=> RecordsOf(engine_type) # << >>
        /\ HasKey(tracker.engine_metrics, engine_type) =>
             Len(RecordsOf(engine_type)) =
                 TotalPredictions(Lookup(tracker.engine_metrics, engine_type).metrics)

\* feedback for two engines was recorded and one engine was then reset: the
\* other keeps its record and its entry
C39_Witness ==
    /\ a_ret.op = "reset_accuracy_data"
    /\ a_ret.args = <<"onnx">>
    /\ fb_calls["onnx"] = 1
    /\ ~HasKey(tracker.engine_metrics, "onnx")
    /\ HasKey(tracker.engine_metrics, "other")
    /\ Len(tracker.feedback_history) = 1
    /\ tracker.feedback_history[1].engine_type = "other"

\* what the caller reads in the value it was given: the buckets by hour
Reads(returned) == [i \in DOMAIN returned |-> returned[i].stats]

\* C35: the value get_hourly_breakdown returned is a copy: a later
\* record_toxicity_check or reset_metrics changes no bucket of it, and a
\* change the caller makes to it changes nothing in the collector.
C35_BreakdownIsCopy ==
    [][/\ m_ret'.op \in {"record_toxicity_check", "reset_metrics"}
          => Reads(breakdown') = Reads(breakdown)
       /\ m_ret'.op = "caller" => collector' = collector
      ]_<<m_calls, breakdown>>

\* C40: what export_metrics('prometheus') and get_summary return while other
\* threads record and reset is what the collector held at some point between
\* two complete operations: no total_checks that counts a check whose other
\* increment is still to come.
C40_AtomicReads ==
    /\ (m_ret.op = "get_summary" /\ m_ret.raised = "")
       => \E i \in DOMAIN seen : m_ret.value = GetSummaryOp(seen[i], now).value
    /\ (m_ret.op = "export_metrics" /\ m_ret.raised = "")
       => \E i \in DOMAIN seen :
            \A k \in DOMAIN PromNames : m_ret.value[k] = PromLine(k, seen[i])

\* C38: singleton creation is race-free: however the first calls of several
\* threads to get_global_cache, get_global_collector, get_global_tracker or
\* to check (which creates the engine) interleave, at most one instance of
\* each is ever constructed and every caller receives the same instance.
C38_OneInstance ==
    /\ \A k \in Singletons : globals.made[k] <= 1
    /\ \A i, j \in DOMAIN seen : seen[i].kind = seen[j].kind => seen[i].got = seen[j].got

\* C32: the tracker's persistence is consistent under concurrency.  With
\* saves that succeed, in every interleaving of record_feedback,
\* import_ground_truth and reset_accuracy_data by two threads each object
\* written to the file is the tracker as it is when the writing call
\* releases the lock, never a state in the middle of a call; the writes
\* follow one another in the order in which the calls take effect (each
\* write is followed by the end of its own call before the next write); the
\* file holds the last object written, and when every call has returned it
\* holds the tracker as it is in memory.
C32_PersistConsistent ==
    /\ \A j \in DOMAIN seen :
          seen[j].ev = "saved"
          => IF j < Len(seen)
             THEN seen[j + 1].ev = "done" /\ seen[j + 1].snapshot = seen[j].snapshot
             ELSE /\ \E t \in Threads : task[t].pc = "unlock" /\ holder.tracker = t
                  /\ seen[j].snapshot = Snapshot(tracker)
    /\ \A j \in DOMAIN seen :
          (seen[j].ev = "saved" /\ \A k \in (j + 1)..Len(seen) : seen[k].ev # "saved")
          => disk = seen[j].snapshot
    /\ ((\A t \in Threads : task[t].pc = "idle") /\ Len(seen) > 1)
       => disk = Snapshot(tracker)

\* a call has written the file and not yet released the lock, the other
\* thread waits for the lock, and an earlier call had written another object
C32_Witness ==
    \E t, u \in Threads :
       /\ task[t].pc = "unlock" /\ task[t].op = "record_feedback"
       /\ task[u].pc = "lock"
       /\ Len(seen) = 4
       /\ seen[4].ev = "saved" /\ seen[2].ev = "saved"
       /\ seen[4].snapshot # seen[2].snapshot
       /\ disk = Snapshot(tracker)
       /\ Len(tracker.feedback_history) = 1

\* C31: analyze runs outside all locks.  While the analyze of a check or of
\* a check_async is in progress, neither the caller nor the thread analyze
\* runs on holds the lock of the cache, the collector or the tracker, and
\* whatever the other caller is doing at that moment in a call of the cache
\* (get, put, get_stats) or of the collector (get_summary,
\* record_toxicity_check), its next step can be taken: the call runs to its
\* end without waiting for analyze to return.
C31_AnalyzeOutsideLocks ==
    \A t \in Threads :
       task[t].pc = "analyzing"
       => /\ \A l \in DOMAIN holder : holder[l] \notin {t, Runner(t)}
          /\ \A u \in Threads \ {t} :
                /\ task[u].pc = "lock" => ENABLED CoreLock(u)
                /\ task[u].pc = "body" => ENABLED CoreBody(u)

\* C31 witness: the cache.get of a check_async returned a miss and its
\* analyze began on the executor's thread; after that the other caller called
\* cache.put, which took the cache's lock, stored the entry and returned,
\* and analyze has still not returned
C31_Witness ==
    \E t \in Threads, u \in Threads :
       /\ t # u
       /\ task[t].pc = "analyzing"
       /\ task[t].op = "check_async"
       /\ task[u].pc = "idle"
       /\ seen = <<Event(t, "call", FALSE), Event(t, "get", FALSE),
                   Event(Executor(t), "analyze_begin", FALSE),
                   Event(u, "call", TRUE), Event(u, "put", TRUE)>>
       /\ cache # << >>
       /\ holder = NoLocks

====
